---- MODULE Spec2Model ----
(***************************************************************************)
(* Model of NREL-Distribution-Suites/shift:                                *)
(*   - shift.graph.distribution_graph.DistributionGraph (networkx backed)  *)
(*   - shift.data_model.EdgeModel validation                               *)
(*   - shift.mapper.balanced_phase_mapper.BalancedPhaseMapper              *)
(*   - shift.mapper.transformer_voltage_mapper.TransformerVoltageMapper    *)
(* Node names are the integers 1..MaxNodes, edge names 1..MaxEdgeNames.    *)
(* Python's None is modelled by 0, which is never a name or a quantity.    *)
(***************************************************************************)
EXTENDS Integers, Sequences, FiniteSets, TLC

VARIABLES
    graph,      \* the DistributionGraph object: networkx _node/_adj + vsource_node
    call,       \* the last call made on the graph: [op, args]
    result,     \* what that call did: [err, value]
    ncalls,     \* number of calls made so far (bounded by MaxCalls)
    mapper,     \* BalancedPhaseMapper.mapper: the TransformerPhaseMapperModel list
    method,     \* BalancedPhaseMapper.method
    enum_first, \* per transformer: which endpoint list(set(...)) enumerates first
    container,  \* the node_phase_mapping dict under construction
    transformer_mapper, \* BalancedPhaseMapper._transformer_phase_mapping
    pc,         \* position inside BalancedPhaseMapper construction
    perr,       \* exception raised by the phase mapper construction
    asset_mapping, \* the asset_phase_mapping dict of the phase mapper
    mapper_class,  \* the BasePhaseMapper subclass being constructed
    xfmr_voltage, \* TransformerVoltageMapper.xfmr_voltage argument
    vpc,        \* position of the TransformerVoltageMapper construction
    node_voltages, \* TransformerVoltageMapper.node_voltage_mapping once computed
    verr,       \* exception raised by the voltage mapper construction
    app_context \* the AppContext of an MCP session: graphs, mappers and systems

graphVars == <<graph, call, result, ncalls>>
phaseVars == <<mapper, method, enum_first, container, transformer_mapper, pc, perr,
               asset_mapping, mapper_class>>
voltVars  == <<xfmr_voltage, vpc, verr, node_voltages>>
sessionVars == <<app_context>>
vars == <<graph, call, result, ncalls, mapper, method, enum_first, container,
          transformer_mapper, pc, perr, asset_mapping, mapper_class,
          xfmr_voltage, vpc, verr, node_voltages, app_context>>

----------------------------------------------------------------------------
(* Bounds *)
MaxNodes == 2
MaxEdgeNames == 2
MaxCalls == 3

None == 0
NodeNames == 1..MaxNodes
EdgeNames == 1..MaxEdgeNames

----------------------------------------------------------------------------
(* data_model.py *)

\* VALID_NODE_TYPES (the asset classes a NodeModel may carry)
DistributionVoltageSource == "DistributionVoltageSource"
DistributionLoad == "DistributionLoad"
AssetSets == {{}, {DistributionVoltageSource}, {DistributionLoad}}

\* VALID_EDGE_TYPES: Type[DistributionBranchBase] | Type[DistributionTransformer];
\* Type[X] admits X and every subclass of X (MatrixImpedanceBranch is one).
DistributionTransformer == "DistributionTransformer"
DistributionBranchBase == "DistributionBranchBase"
MatrixImpedanceBranch == "MatrixImpedanceBranch"
EdgeTypes == {DistributionTransformer, DistributionBranchBase, MatrixImpedanceBranch}

\* issubclass(t, DistributionBranchBase)
IsBranchType(t) == t \in {DistributionBranchBase, MatrixImpedanceBranch}

\* the spec's EdgeKind of an edge type
EdgeKind(t) == IF t = DistributionTransformer THEN "Transformer" ELSE "Branch"

\* Optional[PositiveDistance]
Lengths == {None, 1}

NodeModel(name, assets) == [name |-> name, assets |-> assets]
\* the NodeModel arguments of the call sequences: with and without a voltage source
NodeModels == {NodeModel(n, a) : n \in NodeNames, a \in {{}, {DistributionVoltageSource}}}

\* the raw keyword arguments handed to EdgeModel(...)
EdgeModelArgs == [name : EdgeNames, edge_type : EdgeTypes, length : Lengths]

\* EdgeModel.validate_fields: "ok" or the exception raised
validate_fields(e) ==
    IF e.edge_type = DistributionTransformer /\ e.length # None THEN "ValueError"
    ELSE IF e.edge_type = DistributionBranchBase /\ e.length = None THEN "ValueError"
    ELSE "ok"

\* the EdgeModel instances that exist: those whose construction succeeded
EdgeModels == {e \in EdgeModelArgs : validate_fields(e) = "ok"}
\* the edge_data arguments of the call sequences: per name a transformer and a branch
CallEdgeModels == {e \in EdgeModels : e.edge_type # MatrixImpedanceBranch}

----------------------------------------------------------------------------
(* exceptions.py: the class hierarchy *)

GraphErrors == {"NodeAlreadyExists", "NodeDoesNotExist", "EdgeAlreadyExists",
                "EdgeDoesNotExist", "VsourceNodeAlreadyExists",
                "VsourceNodeDoesNotExist"}
MapperErrors == {"AllocationMappingError", "InvalidPhaseAllocationMethod",
                 "MissingTransformerMapping", "UnsupportedTransformerType",
                 "MissingVoltageMappingError", "UnsupportedBranchEquipmentType"}
\* except ShiftException catches exactly these (of the errors the model raises)
IsShiftException(e) == e \in GraphErrors \cup MapperErrors \cup {"InvalidAssetPhase"}

----------------------------------------------------------------------------
(* networkx.Graph as used by DistributionGraph *)

Range(s) == {s[i] : i \in DOMAIN s}
Remove(s, x) == SelectSeq(s, LAMBDA y : y # x)

EmptyGraph ==
    [nodes |-> <<>>,            \* _node keys in insertion order
     node_data |-> <<>>,        \* name -> NodeModel   (<<>> is the empty function)
     adj |-> <<>>,              \* name -> neighbours in insertion order
     edge_data |-> <<>>,        \* {u,v} -> EdgeModel
     vsource_node |-> None]

\* nx.Graph.has_node / has_edge
HasNode(G, n) == n \in DOMAIN G.node_data
HasEdge(G, u, v) == {u, v} \in DOMAIN G.edge_data

\* nx.Graph.add_node(name, node_data=node)
NxAddNode(G, n, data) ==
    IF n \in DOMAIN G.node_data
    THEN [G EXCEPT !.node_data = [x \in DOMAIN G.node_data |->
                                     IF x = n THEN data ELSE G.node_data[x]]]
    ELSE [G EXCEPT !.nodes = Append(G.nodes, n),
                   !.node_data = [x \in DOMAIN G.node_data \cup {n} |->
                                     IF x = n THEN data ELSE G.node_data[x]],
                   !.adj = [x \in DOMAIN G.adj \cup {n} |->
                                     IF x = n THEN <<>> ELSE G.adj[x]]]

\* nx.Graph.add_edge(u, v, edge_data=data), both endpoints present
NxAddEdge(G, u, v, data) ==
    LET app(s, x) == IF x \in Range(s) THEN s ELSE Append(s, x)
        adj1 == [G.adj EXCEPT ![u] = app(@, v)]
        adj2 == [adj1 EXCEPT ![v] = app(@, u)]
    IN [G EXCEPT !.adj = adj2,
                 !.edge_data = [k \in DOMAIN G.edge_data \cup {{u, v}} |->
                                   IF k = {u, v} THEN data ELSE G.edge_data[k]]]

\* nx.Graph.remove_node(n), n present
NxRemoveNode(G, n) ==
    [G EXCEPT !.nodes = Remove(G.nodes, n),
              !.node_data = [x \in DOMAIN G.node_data \ {n} |-> G.node_data[x]],
              !.adj = [x \in DOMAIN G.adj \ {n} |-> Remove(G.adj[x], n)],
              !.edge_data = [k \in {e \in DOMAIN G.edge_data : n \notin e} |->
                                G.edge_data[k]]]

\* nx.Graph.remove_edge(u, v), edge present
NxRemoveEdge(G, u, v) ==
    [G EXCEPT !.adj = [x \in DOMAIN G.adj |->
                          IF x = u THEN Remove(G.adj[x], v)
                          ELSE IF x = v THEN Remove(G.adj[x], u)
                          ELSE G.adj[x]],
              !.edge_data = [k \in DOMAIN G.edge_data \ {{u, v}} |-> G.edge_data[k]]]

\* iteration order of nx.Graph.edges: for n in _adj, for nbr in _adj[n], unseen only
RECURSIVE NxEdgesFrom(_, _, _)
NxEdgesFrom(G, i, seen) ==
    IF i > Len(G.nodes) THEN <<>>
    ELSE LET n == G.nodes[i]
             nbrs == SelectSeq(G.adj[n], LAMBDA m : m \notin seen)
         IN [j \in 1..Len(nbrs) |-> <<n, nbrs[j]>>]
            \o NxEdgesFrom(G, i + 1, seen \cup {n})
NxEdges(G) == NxEdgesFrom(G, 1, {})

\* nx.dfs_edges(G, source): the explicit stack of (parent, iterator over G[parent])
RECURSIVE DfsLoop(_, _, _, _)
DfsLoop(G, stack, visited, arcs) ==
    IF stack = <<>> THEN [nodes |-> visited, arcs |-> arcs]
    ELSE LET top == stack[Len(stack)]
             parent == top[1]
             i == top[2]
             rest == SubSeq(stack, 1, Len(stack) - 1)
         IN IF i > Len(G.adj[parent]) THEN DfsLoop(G, rest, visited, arcs)
            ELSE LET child == G.adj[parent][i]
                     adv == Append(rest, <<parent, i + 1>>)
                 IN IF child \in visited THEN DfsLoop(G, adv, visited, arcs)
                    ELSE DfsLoop(G, Append(adv, <<child, 1>>),
                                 visited \cup {child}, arcs \cup {<<parent, child>>})

\* nx.dfs_tree(G, source) for a source that is a node of G
NxDfsTree(G, source) == DfsLoop(G, <<<<source, 1>>>>, {source}, {})

----------------------------------------------------------------------------
(* graph/distribution_graph.py: DistributionGraph *)

Ok(G) == [graph |-> G, err |-> "ok"]
Raise(G, e) == [graph |-> G, err |-> e]

HasVsource(node) == DistributionVoltageSource \in node.assets

\* DistributionGraph.add_node without the has_node guard
add_node_no_dup_check(G, node) ==
    IF G.vsource_node # None /\ HasVsource(node)
    THEN Raise(G, "VsourceNodeAlreadyExists")
    ELSE LET G1 == NxAddNode(G, node.name, node)
         IN Ok(IF HasVsource(node) THEN [G1 EXCEPT !.vsource_node = node.name] ELSE G1)

\* DistributionGraph.add_node without the voltage-source guard
add_node_no_vsource_check(G, node) ==
    IF HasNode(G, node.name)
    THEN Raise(G, "NodeAlreadyExists")
    ELSE LET G1 == NxAddNode(G, node.name, node)
         IN Ok(IF HasVsource(node) THEN [G1 EXCEPT !.vsource_node = node.name] ELSE G1)

\* DistributionGraph.add_node
add_node(G, node) ==
    IF HasNode(G, node.name)
    THEN Raise(G, "NodeAlreadyExists")
    ELSE IF G.vsource_node # None /\ HasVsource(node)
    THEN Raise(G, "VsourceNodeAlreadyExists")
    ELSE LET G1 == NxAddNode(G, node.name, node)
         IN Ok(IF HasVsource(node) THEN [G1 EXCEPT !.vsource_node = node.name] ELSE G1)

\* DistributionGraph.add_nodes: the loop stops at the first exception
RECURSIVE add_nodes(_, _)
add_nodes(G, nodes) ==
    IF nodes = <<>> THEN Ok(G)
    ELSE LET r == add_node(G, Head(nodes))
         IN IF r.err # "ok" THEN r ELSE add_nodes(r.graph, Tail(nodes))

\* an endpoint argument of add_edge: a node name (str) or a NodeModel
StrEndpoint(n) == [isModel |-> FALSE, name |-> n, assets |-> {}]
ModelEndpoint(node) == [isModel |-> TRUE, name |-> node.name, assets |-> node.assets]
Endpoints == {StrEndpoint(n) : n \in NodeNames} \cup {ModelEndpoint(m) : m \in NodeModels}

\* add_edge, lines 148-150: one iteration of the auto-add loop
AutoAdd(G, ep) ==
    IF ep.isModel /\ ~HasNode(G, ep.name)
    THEN add_node(G, NodeModel(ep.name, ep.assets))
    ELSE Ok(G)

\* DistributionGraph.add_edge without the has_edge guard
add_edge_no_edge_check(G, from_node, to_node, edge_data) ==
    LET r1 == AutoAdd(G, from_node)
    IN IF r1.err # "ok" THEN r1
       ELSE LET r2 == AutoAdd(r1.graph, to_node)
            IN IF r2.err # "ok" THEN r2
               ELSE IF ~(HasNode(r2.graph, from_node.name) /\ HasNode(r2.graph, to_node.name))
               THEN Raise(r2.graph, "NodeDoesNotExist")
               ELSE Ok(NxAddEdge(r2.graph, from_node.name, to_node.name, edge_data))

\* DistributionGraph.add_edge
add_edge(G, from_node, to_node, edge_data) ==
    LET r1 == AutoAdd(G, from_node)
    IN IF r1.err # "ok" THEN r1
       ELSE LET r2 == AutoAdd(r1.graph, to_node)
            IN IF r2.err # "ok" THEN r2
               ELSE IF HasEdge(r2.graph, from_node.name, to_node.name)
               THEN Raise(r2.graph, "EdgeAlreadyExists")
               ELSE IF ~(HasNode(r2.graph, from_node.name) /\ HasNode(r2.graph, to_node.name))
               THEN Raise(r2.graph, "NodeDoesNotExist")
               ELSE Ok(NxAddEdge(r2.graph, from_node.name, to_node.name, edge_data))

\* DistributionGraph.remove_node: networkx raises when the node is absent
remove_node(G, node_name) ==
    IF ~HasNode(G, node_name) THEN Raise(G, "NetworkXError")
    ELSE Ok(NxRemoveNode(G, node_name))

\* DistributionGraph.remove_edge: networkx raises when the edge is absent
remove_edge(G, from_node, to_node) ==
    IF ~HasEdge(G, from_node, to_node) THEN Raise(G, "NetworkXError")
    ELSE Ok(NxRemoveEdge(G, from_node, to_node))

NoTree == [nodes |-> {}, arcs |-> {}]

\* get_dfs_tree calling nx.dfs_tree without source=: the traversal starts at the
\* first node of the graph
get_dfs_tree_no_source(G) ==
    IF G.vsource_node = None
    THEN [err |-> "VsourceNodeDoesNotExist", value |-> NoTree]
    ELSE IF ~HasNode(G, G.vsource_node)
    THEN [err |-> "NetworkXError", value |-> NoTree]
    ELSE [err |-> "ok", value |-> NxDfsTree(G, G.nodes[1])]

\* DistributionGraph.get_dfs_tree: [err, value]
get_dfs_tree(G) ==
    IF G.vsource_node = None
    THEN [err |-> "VsourceNodeDoesNotExist", value |-> NoTree]
    ELSE IF ~HasNode(G, G.vsource_node)
    THEN [err |-> "NetworkXError", value |-> NoTree]
    ELSE [err |-> "ok", value |-> NxDfsTree(G, G.vsource_node)]

\* DistributionGraph.get_edges(): (from_node, to_node, EdgeModel) in iteration order
get_edges(G) ==
    LET es == NxEdges(G)
    IN [i \in 1..Len(es) |-> <<es[i][1], es[i][2], G.edge_data[{es[i][1], es[i][2]}]>>]

----------------------------------------------------------------------------
(* The graph under an arbitrary sequence of calls *)

PhaseIdle ==
    /\ mapper = <<>> /\ method = "greedy" /\ enum_first = <<>>
    /\ container = <<>> /\ transformer_mapper = <<>>
    /\ pc = "none" /\ perr = "ok"
    /\ asset_mapping = <<>> /\ mapper_class = "none"
VoltIdle == xfmr_voltage = <<>> /\ vpc = "none" /\ verr = "ok" /\ node_voltages = <<>>

\* AppContext(): every table of the session is empty
EmptyApp == [graphs |-> <<>>, phase_mappers |-> <<>>, voltage_mappers |-> <<>>,
             equipment_mappers |-> <<>>, systems |-> <<>>]
SessionIdle == app_context = EmptyApp

GraphInit ==
    /\ graph = EmptyGraph
    /\ call = [op |-> "init", args |-> <<>>]
    /\ result = [err |-> "ok", value |-> NoTree]
    /\ ncalls = 0

Init == GraphInit /\ PhaseIdle /\ VoltIdle /\ SessionIdle

Called(op, args, r) ==
    /\ ncalls < MaxCalls
    /\ ncalls' = ncalls + 1
    /\ call' = [op |-> op, args |-> args]
    /\ graph' = r.graph
    /\ result' = [err |-> r.err, value |-> NoTree]
    /\ UNCHANGED <<phaseVars, voltVars, sessionVars>>

AddNode == \E node \in NodeModels :
    Called("add_node", <<node>>, add_node(graph, node))

AddNodes == \E n1, n2 \in NodeModels :
    Called("add_nodes", <<n1, n2>>, add_nodes(graph, <<n1, n2>>))

AddEdge == \E u, v \in Endpoints, e \in CallEdgeModels :
    Called("add_edge", <<u, v, e>>, add_edge(graph, u, v, e))

RemoveNode == \E n \in NodeNames :
    Called("remove_node", <<n>>, remove_node(graph, n))

RemoveEdge == \E u, v \in NodeNames :
    Called("remove_edge", <<u, v>>, remove_edge(graph, u, v))

GetDfsTree ==
    /\ ncalls < MaxCalls
    /\ ncalls' = ncalls + 1
    /\ call' = [op |-> "get_dfs_tree", args |-> <<>>]
    /\ result' = get_dfs_tree(graph)
    /\ UNCHANGED <<graph, phaseVars, voltVars, sessionVars>>

\* EdgeModel(name=..., edge_type=..., length=...): construction runs validate_fields
NewEdgeModel == \E a \in EdgeModelArgs :
    /\ ncalls < MaxCalls
    /\ ncalls' = ncalls + 1
    /\ call' = [op |-> "EdgeModel", args |-> <<a>>]
    /\ result' = [err |-> validate_fields(a), value |-> NoTree]
    /\ UNCHANGED <<graph, phaseVars, voltVars, sessionVars>>

Next == AddNode \/ AddNodes \/ AddEdge \/ RemoveNode \/ RemoveEdge
            \/ GetDfsTree \/ NewEdgeModel

Spec == Init /\ [][Next]_vars

----------------------------------------------------------------------------
(* get_dfs_tree on graphs built by add_node / add_edge *)

DfsNodes == 4
DfsEdges == 3

\* the graph left by add_edge(NodeModel u, NodeModel v, ...) for each pair of pairs,
\* after add_node(NodeModel src) when src is a name; node src carries the source
RECURSIVE BuildGraph(_, _, _)
BuildGraph(G, src, pairs) ==
    IF pairs = <<>> THEN G
    ELSE LET nm(n) == NodeModel(n, IF n = src THEN {DistributionVoltageSource} ELSE {})
             u == Head(pairs)[1]
             v == Head(pairs)[2]
             e == [name |-> Len(pairs), edge_type |-> DistributionBranchBase, length |-> 1]
             r == add_edge(G, ModelEndpoint(nm(u)), ModelEndpoint(nm(v)), e)
         IN BuildGraph(r.graph, src, Tail(pairs))

\* the source node is added before the edges (first) or after them, unless an
\* edge has already brought it in
DfsGraphs ==
    {LET vs == NodeModel(src, {DistributionVoltageSource})
         G0 == IF src # None /\ first THEN add_node(EmptyGraph, vs).graph ELSE EmptyGraph
         G1 == BuildGraph(G0, src, pairs)
     IN IF src # None THEN add_node(G1, vs).graph ELSE G1 :
        src \in {None} \cup (1..DfsNodes),
        first \in BOOLEAN,
        pairs \in [1..DfsEdges -> (1..DfsNodes) \X (1..DfsNodes)]}

DfsInit ==
    /\ graph \in DfsGraphs
    /\ call = [op |-> "init", args |-> <<>>]
    /\ result = [err |-> "ok", value |-> NoTree]
    /\ ncalls = 0 /\ SessionIdle
    /\ PhaseIdle /\ VoltIdle

DfsNext == GetDfsTree

SpecDfs == DfsInit /\ [][DfsNext]_vars

----------------------------------------------------------------------------
(* Properties of the graph operations *)

IsCall(op) == call.op = op
Arg(i) == call.args[i]

VsourceNodes(G) == {n \in DOMAIN G.node_data : HasVsource(G.node_data[n])}
Edges(G) == DOMAIN G.edge_data

\* C1: add_node(node) on a graph that already has a node named node.name raises
\* NodeAlreadyExists and leaves the whole graph (nodes, node data, edges,
\* vsource_node) unchanged; and in every reachable state the node names are
\* unique: no name is listed twice and each stored NodeModel sits under its own name.
NodeNamesUnique ==
    /\ \A i, j \in DOMAIN graph.nodes : i # j => graph.nodes[i] # graph.nodes[j]
    /\ Range(graph.nodes) = DOMAIN graph.node_data
    /\ \A n \in DOMAIN graph.node_data : graph.node_data[n].name = n
C1_DuplicateNodeStep ==
    (call'.op = "add_node" /\ HasNode(graph, call'.args[1].name))
        => (result'.err = "NodeAlreadyExists" /\ graph' = graph)
C1_DuplicateNodeRejected == [][C1_DuplicateNodeStep]_vars /\ []NodeNamesUnique
C1_Witness ==
    /\ IsCall("add_node") /\ result.err = "NodeAlreadyExists"
    /\ HasNode(graph, Arg(1).name) /\ graph.node_data[Arg(1).name] # Arg(1)

\* C2: at most one node carries VoltageSource and, when one does, vsource_node is
\* its name; add_node of a VoltageSource-carrying node (under a name not yet
\* taken) while another one is in the graph raises VsourceNodeAlreadyExists and
\* changes nothing; no call adds a second VoltageSource-carrying node.
SingleVsource ==
    /\ Cardinality(VsourceNodes(graph)) <= 1
    /\ \A n \in VsourceNodes(graph) : graph.vsource_node = n
C2_SecondVsourceStep ==
    /\ (call'.op = "add_node" /\ HasVsource(call'.args[1])
            /\ ~HasNode(graph, call'.args[1].name) /\ VsourceNodes(graph) # {})
        => (result'.err = "VsourceNodeAlreadyExists" /\ graph' = graph)
    /\ VsourceNodes(graph) # {} => VsourceNodes(graph') \subseteq VsourceNodes(graph)
C2_SingleVoltageSource == [][C2_SecondVsourceStep]_vars /\ []SingleVsource
C2_Witness ==
    /\ IsCall("add_node") /\ result.err = "VsourceNodeAlreadyExists"
    /\ VsourceNodes(graph) # {} /\ Arg(1).name \notin VsourceNodes(graph)

\* C3: in every reachable state vsource_node is unset or names a node of the graph
\* (remove_node of the source node clears it).
C3_VsourceNodeInGraph ==
    graph.vsource_node = None \/ HasNode(graph, graph.vsource_node)

\* C4 as stated: every add_edge call either raises EdgeAlreadyExists or
\* NodeDoesNotExist, or adds exactly the edge {u,v} with the given EdgeModel.
C4_AddEdgeOutcomes_Original ==
    [][call'.op = "add_edge" =>
        \/ result'.err \in {"EdgeAlreadyExists", "NodeDoesNotExist"}
        \/ /\ result'.err = "ok"
           /\ Edges(graph') = Edges(graph) \cup {{call'.args[1].name, call'.args[2].name}}
      ]_vars

\* C4 amended: unless auto-adding an endpoint raises VsourceNodeAlreadyExists,
\* add_edge(u, v, edge) leaves every NodeModel endpoint in the graph (stored as
\* given when it was absent, untouched when present); it raises EdgeAlreadyExists
\* iff {u,v} is already an edge, else NodeDoesNotExist iff an endpoint given by
\* name is not in the graph, and otherwise adds exactly the edge {u,v} carrying
\* the given EdgeModel; no other edge changes in any case.
C4_AddEdgeStep ==
    (call'.op = "add_edge" /\ result'.err # "VsourceNodeAlreadyExists") =>
        LET u == call'.args[1]
            v == call'.args[2]
            e == call'.args[3]
            k == {u.name, v.name}
            missing == \E ep \in {u, v} : ~ep.isModel /\ ~HasNode(graph', ep.name)
        IN /\ \A ep \in {u, v} : ep.isModel =>
                /\ HasNode(graph', ep.name)
                /\ graph'.node_data[ep.name] =
                      (IF HasNode(graph, ep.name) THEN graph.node_data[ep.name]
                       ELSE IF u.isModel /\ u.name = ep.name
                            THEN NodeModel(u.name, u.assets)
                            ELSE NodeModel(ep.name, ep.assets))
           /\ (result'.err = "EdgeAlreadyExists") <=> (k \in Edges(graph))
           /\ (result'.err = "NodeDoesNotExist") <=> (k \notin Edges(graph) /\ missing)
           /\ result'.err \in {"EdgeAlreadyExists", "NodeDoesNotExist", "ok"}
           /\ \A x \in Edges(graph) : x \in Edges(graph')
                                      /\ graph'.edge_data[x] = graph.edge_data[x]
           /\ IF result'.err = "ok"
              THEN Edges(graph') = Edges(graph) \cup {k} /\ graph'.edge_data[k] = e
              ELSE Edges(graph') = Edges(graph)
C4_AddEdgeOutcomes == [][C4_AddEdgeStep]_vars
C4_Witness ==
    /\ IsCall("add_edge") /\ result.err = "ok"
    /\ Arg(1).isModel /\ ~Arg(2).isModel
    /\ Cardinality(Edges(graph)) = 2

\* C5: no two distinct edges of the graph carry EdgeModels with the same name.
C5_EdgeNamesUnique ==
    \A k1, k2 \in Edges(graph) :
        k1 # k2 => graph.edge_data[k1].name # graph.edge_data[k2].name

\* C6: every EdgeModel whose construction succeeds has kind Transformer iff its
\* length is null.
C6_TransformerIffNoLength ==
    (IsCall("EdgeModel") /\ result.err = "ok")
        => ((EdgeKind(Arg(1).edge_type) = "Transformer") <=> (Arg(1).length = None))

\* the connected component of n in the undirected graph
RECURSIVE Component(_, _)
Component(G, S) ==
    LET T == S \cup {m \in DOMAIN G.node_data : \E n \in S : {n, m} \in Edges(G)}
    IN IF T = S THEN S ELSE Component(G, T)

\* the nodes reachable from S along the arcs of a directed tree
RECURSIVE Descend(_, _)
Descend(arcs, S) ==
    LET T == S \cup {a[2] : a \in {b \in arcs : b[1] \in S}}
    IN IF T = S THEN S ELSE Descend(arcs, T)

\* C7: get_dfs_tree() raises VsourceNodeDoesNotExist when vsource_node is unset;
\* on a graph holding a voltage-source node it returns a directed tree rooted at
\* vsource_node whose nodes are exactly the connected component of vsource_node,
\* every non-root node having exactly one predecessor and every arc lying on an
\* undirected edge of the graph; the stored graph is not modified.
C7_DfsTreeStep ==
    call'.op = "get_dfs_tree" =>
        LET t == result'.value
            root == graph.vsource_node
        IN /\ graph' = graph
           /\ root = None => result'.err = "VsourceNodeDoesNotExist"
           /\ VsourceNodes(graph) # {} =>
                /\ result'.err = "ok"
                /\ root \in t.nodes
                /\ t.nodes = Component(graph, {root})
                /\ \A a \in t.arcs : a[2] # root /\ {a[1], a[2]} \in Edges(graph)
                                     /\ a[1] \in t.nodes
                /\ \A n \in t.nodes \ {root} :
                        Cardinality({a \in t.arcs : a[2] = n}) = 1
                /\ Descend(t.arcs, {root}) = t.nodes
C7_DfsTree == [][C7_DfsTreeStep]_vars
C7_Witness ==
    /\ IsCall("get_dfs_tree") /\ result.err = "ok"
    /\ Cardinality(result.value.nodes) = 3
    /\ graph.nodes[1] # graph.vsource_node
    /\ \E a, b \in result.value.nodes :
          /\ {a, b} \in Edges(graph) /\ a # b
          /\ <<a, b>> \notin result.value.arcs /\ <<b, a>> \notin result.value.arcs

----------------------------------------------------------------------------
(* Radial graphs handed to the mappers *)

TreeNodes == 4
MaxConfigs == 2

\* node 1 carries the voltage source; node c > 1 hangs below par[c] < c on the edge
\* named c, a transformer when c \in xf and a branch with a length otherwise;
\* node c carries a load when c \in loads.  Built as the test fixtures build
\* their graphs: add_nodes, then one add_edge per edge.
RECURSIVE BuildTreeEdges(_, _, _, _, _)
BuildTreeEdges(G, n, par, xf, c) ==
    IF c > n THEN G
    ELSE LET e == IF c \in xf
                  THEN [name |-> c, edge_type |-> DistributionTransformer, length |-> None]
                  ELSE [name |-> c, edge_type |-> MatrixImpedanceBranch, length |-> 1]
         IN BuildTreeEdges(add_edge(G, StrEndpoint(par[c]), StrEndpoint(c), e).graph,
                           n, par, xf, c + 1)

BuildTree(n, par, xf, loads) ==
    LET nm(i) == NodeModel(i, IF i = 1 THEN {DistributionVoltageSource}
                              ELSE IF i \in loads THEN {DistributionLoad} ELSE {})
    IN BuildTreeEdges(add_nodes(EmptyGraph, [i \in 1..n |-> nm(i)]).graph, n, par, xf, 2)

ParentMaps(n) == {par \in [2..n -> 1..n] : \A c \in 2..n : par[c] < c}

\* the leaves of the tree carry the loads
Leaves(n, par) == {c \in 2..n : \A d \in 2..n : par[d] # c}

MapperGraphs ==
    UNION {{BuildTree(n, par, xf, Leaves(n, par)) : par \in ParentMaps(n), xf \in SUBSET (2..n)} :
            n \in 2..TreeNodes}

----------------------------------------------------------------------------
(* mapper/balanced_phase_mapper.py *)

\* TransformerTypes, in the order sorted() puts the str-valued enum members
TransformerTypes == <<"SINGLE_PHASE", "SINGLE_PHASE_PRIMARY_DELTA", "SPLIT_PHASE",
                      "SPLIT_PHASE_PRIMARY_DELTA", "THREE_PHASE">>
Capacities == {1, 2}

three_phase == {"A", "B", "C"}
split_phase_tail == {"S1", "N", "S2"}
single_phase_combinations == <<{"A"}, {"B"}, {"C"}>>
delta_phase_combinations == <<{"A", "B"}, {"B", "C"}, {"C", "A"}>>
two_phase_sets == {{"A", "B"}, {"B", "C"}, {"C", "A"}}

\* type_to_input_mapper: [ht_phases, is_split_phase]
ht_phases_of(tr_type) ==
    IF tr_type \in {"SPLIT_PHASE", "SINGLE_PHASE"} THEN single_phase_combinations
    ELSE delta_phase_combinations
is_split_phase_type(tr_type) == tr_type \in {"SPLIT_PHASE", "SPLIT_PHASE_PRIMARY_DELTA"}

\* dict assignment d[k] = v
Put(d, k, v) == [x \in DOMAIN d \cup {k} |-> IF x = k THEN v ELSE d[x]]

\* names of the transformer edges of the graph
TransformerEdgeNames(G) ==
    {G.edge_data[k].name : k \in {x \in Edges(G) :
                                    G.edge_data[x].edge_type = DistributionTransformer}}
AllEdgeNames(G) == {G.edge_data[k].name : k \in Edges(G)}

MapperNames(m) == {m[i].tr_name : i \in DOMAIN m}


\* BalancedPhaseMapper.__init__, lines 86-93: "ok" or the exception raised
phase_init_check(G, m) ==
    IF MapperNames(m) \ TransformerEdgeNames(G) # {} THEN "ValueError" ELSE "ok"

\* _get_nodes_by_edge_names
get_nodes_by_edge_names(G, edge_names) ==
    UNION {k \in Edges(G) : G.edge_data[k].name \in edge_names}

\* successors of n in the DFS tree, nx.dfs_successors(tree, n, depth_limit=1)[n]
Children(tree, n) == {a[2] : a \in {b \in tree.arcs : b[1] = n}}

\* _get_head_node: nodes = list(set) puts `first` at index 0; [err, node]
get_head_node(G, edge_name, first) ==
    LET nodes == get_nodes_by_edge_names(G, {edge_name})
        second == CHOOSE n \in nodes : n # first
        tree == get_dfs_tree(G).value
    IN IF Children(tree, first) = {} THEN [err |-> "KeyError", node |-> None]
       ELSE IF second \in Children(tree, first) THEN [err |-> "ok", node |-> first]
       ELSE [err |-> "ok", node |-> second]

\* sorted(weights, key=capacity, reverse=True): stable insertion into a sorted list
RECURSIVE SortedDesc(_)
SortedDesc(w) ==
    IF w = <<>> THEN <<>>
    ELSE LET rest == SortedDesc(SubSeq(w, 1, Len(w) - 1))
             x == w[Len(w)]
             pos == Cardinality({i \in DOMAIN rest : rest[i].tr_capacity >= x.tr_capacity})
         IN SubSeq(rest, 1, pos) \o <<x>> \o SubSeq(rest, pos + 1, Len(rest))

\* an argmin that always answers the first category
ArgFirst(sums) == 1

\* np.argmin: the first index of the minimum
ArgMin(sums) ==
    CHOOSE i \in DOMAIN sums : \A j \in DOMAIN sums :
        sums[i] < sums[j] \/ (sums[i] = sums[j] /\ i <= j)

\* greedy_allocations: lists of transformer names, one list per category
RECURSIVE GreedyLoop(_, _, _)
GreedyLoop(sorted_weights, sums, allocations) ==
    IF sorted_weights = <<>> THEN allocations
    ELSE LET weight == Head(sorted_weights)
             i == ArgMin(sums)
         IN GreedyLoop(Tail(sorted_weights),
                       [sums EXCEPT ![i] = @ + weight.tr_capacity],
                       [allocations EXCEPT ![i] = Append(@, weight.tr_name)])
greedy_allocations(weights, num_categories) ==
    GreedyLoop(SortedDesc(weights), [i \in 1..num_categories |-> 0],
               [i \in 1..num_categories |-> <<>>])

\* _get_allocations(names, labels, n): names[i] goes to category labels[i]
get_allocations(trs, labels, n_categories) ==
    [c \in 1..n_categories |->
        LET pick == SelectSeq([i \in DOMAIN trs |-> i],
                              LAMBDA i : labels[trs[i].tr_name] = c)
        IN [j \in DOMAIN pick |-> trs[pick[j]].tr_name]]

\* _update_single_phase_tr_nodes, lines 180-189: one transformer of one allocation
UpdateOneTransformer(G, st, tr, phases, is_split_phase) ==
    IF st.err # "ok" THEN st
    ELSE LET h == get_head_node(G, tr, enum_first[tr])
         IN IF h.err # "ok" THEN [st EXCEPT !.err = h.err]
            ELSE LET nodes == get_nodes_by_edge_names(G, {tr})
                     tail_node == CHOOSE n \in nodes : n # h.node
                     c1 == Put(st.c, h.node, phases)
                     c2 == Put(c1, tail_node,
                               IF is_split_phase THEN split_phase_tail ELSE phases)
                 IN [st EXCEPT !.c = c2, !.tm = Put(st.tm, tr, phases)]

\* lines 180-181: for allocation, phases in zip(...): for tr in allocation
RECURSIVE UpdateAllocations(_, _, _, _, _, _, _)
UpdateAllocations(G, st, allocations, ht_phases, is_split_phase, p, i) ==
    IF p > Len(ht_phases) THEN st
    ELSE IF i > Len(allocations[p])
    THEN UpdateAllocations(G, st, allocations, ht_phases, is_split_phase, p + 1, 1)
    ELSE UpdateAllocations(G,
            UpdateOneTransformer(G, st, allocations[p][i], ht_phases[p], is_split_phase),
            allocations, ht_phases, is_split_phase, p, i + 1)

\* _update_single_phase_tr_nodes; labels are the cluster labels sklearn returns
update_single_phase_tr_nodes(G, st, trs, ht_phases, is_split_phase, labels) ==
    IF method = "greedy"
    THEN UpdateAllocations(G, st, greedy_allocations(trs, Len(ht_phases)),
                           ht_phases, is_split_phase, 1, 1)
    ELSE IF method = "kmeans"
    THEN IF Len(trs) < Len(ht_phases) THEN [st EXCEPT !.err = "ValueError"]
         ELSE UpdateAllocations(G, st, get_allocations(trs, labels, Len(ht_phases)),
                                ht_phases, is_split_phase, 1, 1)
    ELSE [st EXCEPT !.err = "ValueError"]

\* _update_three_phase_nodes
update_three_phase_nodes(G, st, trs) ==
    LET tr_names == {trs[i].tr_name : i \in DOMAIN trs}
        nodes == get_nodes_by_edge_names(G, tr_names)
    IN [st EXCEPT !.tm = [x \in DOMAIN st.tm \cup tr_names |->
                             IF x \in tr_names THEN three_phase ELSE st.tm[x]],
                  !.c = [x \in DOMAIN st.c \cup nodes |->
                             IF x \in nodes THEN three_phase ELSE st.c[x]]]

\* _update_transformer_node_phases: groupby(sorted(mapper, key=tr_type))
RECURSIVE update_transformer_node_phases(_, _, _, _, _)
update_transformer_node_phases(G, st, m, labels, t) ==
    IF t > Len(TransformerTypes) \/ st.err # "ok" THEN st
    ELSE LET tr_type == TransformerTypes[t]
             group == SelectSeq(m, LAMBDA x : x.tr_type = tr_type)
             st1 == IF group = <<>> THEN st
                    ELSE IF tr_type = "THREE_PHASE" THEN update_three_phase_nodes(G, st, group)
                    ELSE update_single_phase_tr_nodes(G, st, group, ht_phases_of(tr_type),
                                                      is_split_phase_type(tr_type), labels)
         IN update_transformer_node_phases(G, st1, m, labels, t + 1)

\* the path source -> target in the DFS tree, reversed (target first)
RECURSIVE PathUp(_, _, _)
PathUp(tree, root, n) ==
    IF n = root THEN <<n>>
    ELSE <<n>> \o PathUp(tree, root, CHOOSE q \in tree.nodes : <<q, n>> \in tree.arcs)

\* lines 236-249: the walk from the head up to the source
\* breakpoint() stops the run under the default hook (pdb without a terminal
\* ends in BdbQuit) and is a no-op when PYTHONBREAKPOINT=0
RECURSIVE UpwardWalk(_, _, _, _)
UpwardWalk(st, path, head_phase, pythonbreakpoint) ==
    IF path = <<>> \/ st.err # "ok" THEN st
    ELSE LET node == Head(path)
             u == (IF node \in DOMAIN st.c THEN st.c[node] ELSE {}) \cup head_phase
         IN IF Cardinality(u) > 3 /\ pythonbreakpoint = "pdb"
            THEN [st EXCEPT !.c = Put(st.c, node, u), !.err = "BdbQuit"]
            ELSE UpwardWalk([st EXCEPT !.c = Put(st.c, node,
                                              IF u \in two_phase_sets THEN three_phase ELSE u)],
                            Tail(path), head_phase, pythonbreakpoint)

\* _update_node_phases_upward_from_transformer: one iteration of `for tr in mapper`
upward_from_transformer(G, st, tr, pythonbreakpoint) ==
    LET h == get_head_node(G, tr.tr_name, enum_first[tr.tr_name])
    IN IF h.err # "ok" THEN [st EXCEPT !.err = h.err]
       ELSE IF h.node \notin DOMAIN st.c THEN [st EXCEPT !.err = "KeyError"]
       ELSE UpwardWalk(st, PathUp(get_dfs_tree(G).value, G.vsource_node, h.node),
                       st.c[h.node], pythonbreakpoint)

\* nx.descendants(tree, n)
Descendants(tree, n) == Descend(tree.arcs, {n}) \ {n}

\* the downward step writing every descendant of the head, labelled or not
downward_from_transformer_overwrite(G, st, tr) ==
    LET h == get_head_node(G, tr.tr_name, enum_first[tr.tr_name])
    IN IF h.err # "ok" THEN [st EXCEPT !.err = h.err]
       ELSE LET tr_nodes == get_nodes_by_edge_names(G, {tr.tr_name})
                lt_node == CHOOSE n \in tr_nodes : n # h.node
            IN IF lt_node \notin DOMAIN st.c THEN [st EXCEPT !.err = "KeyError"]
               ELSE LET lt_phase == st.c[lt_node]
                        fill == IF lt_phase = split_phase_tail THEN {"S1", "S2"} ELSE lt_phase
                        desc == Descendants(get_dfs_tree(G).value, h.node)
                    IN [st EXCEPT !.c = [x \in DOMAIN st.c \cup desc |->
                                            IF x \in desc THEN fill ELSE st.c[x]]]

\* _update_node_phases_downward_from_transformer: one iteration of `for tr in mapper`
downward_from_transformer(G, st, tr) ==
    LET h == get_head_node(G, tr.tr_name, enum_first[tr.tr_name])
    IN IF h.err # "ok" THEN [st EXCEPT !.err = h.err]
       ELSE LET tr_nodes == get_nodes_by_edge_names(G, {tr.tr_name})
                lt_node == CHOOSE n \in tr_nodes : n # h.node
            IN IF lt_node \notin DOMAIN st.c THEN [st EXCEPT !.err = "KeyError"]
               ELSE LET lt_phase == st.c[lt_node]
                        fill == IF lt_phase = split_phase_tail THEN {"S1", "S2"} ELSE lt_phase
                        desc == Descendants(get_dfs_tree(G).value, h.node)
                    IN [st EXCEPT !.c = [x \in DOMAIN st.c \cup desc |->
                                            IF x \in DOMAIN st.c THEN st.c[x] ELSE fill]]

\* BalancedPhaseMapper.asset_phase_mapping: [err, value]
asset_phase_mapping(G, c) ==
    IF \E n \in DOMAIN G.node_data : G.node_data[n].assets # {} /\ n \notin DOMAIN c
    THEN [err |-> "KeyError", value |-> <<>>]
    ELSE [err |-> "ok",
          value |-> [n \in DOMAIN G.node_data |-> [a \in G.node_data[n].assets |-> c[n]]]]

----------------------------------------------------------------------------
(* mapper/base_phase_mapper.py *)

\* the union of the phases of the assets of one node
AssetPhases(asset_map) == UNION {asset_map[a] : a \in DOMAIN asset_map}

\* _validate_asset_phases accepting every table
validate_asset_phases_no_check(order, node_phases, am, i) == "ok"

\* _validate_asset_phases: the loop over asset_phase_mapping.items() from its i-th
\* item on; "ok" or the exception raised
RECURSIVE validate_asset_phases(_, _, _, _)
validate_asset_phases(order, node_phases, am, i) ==
    IF i > Len(order) THEN "ok"
    ELSE LET node == order[i]
         IN IF node \notin DOMAIN node_phases THEN "KeyError"
            ELSE IF ~(AssetPhases(am[node]) \subseteq node_phases[node])
            THEN "InvalidAssetPhase"
            ELSE validate_asset_phases(order, node_phases, am, i + 1)

\* lines 227-249: for tr in mapper
RECURSIVE upward_from_transformers(_, _, _, _, _)
upward_from_transformers(G, st, m, i, pythonbreakpoint) ==
    IF i > Len(m) \/ st.err # "ok" THEN st
    ELSE upward_from_transformers(G, upward_from_transformer(G, st, m[i], pythonbreakpoint),
                                  m, i + 1, pythonbreakpoint)

\* lines 257-267: for tr in mapper
RECURSIVE downward_from_transformers(_, _, _, _)
downward_from_transformers(G, st, m, i) ==
    IF i > Len(m) \/ st.err # "ok" THEN st
    ELSE downward_from_transformers(G, downward_from_transformer(G, st, m[i]), m, i + 1)

----------------------------------------------------------------------------
(* Construction of a BalancedPhaseMapper on a radial graph *)

BogusName == TreeNodes + 1
Methods == {"greedy", "kmeans"}

TransformerPhaseMapperModels(names) ==
    [tr_name : names, tr_type : Range(TransformerTypes), tr_capacity : Capacities]

\* the config lists: at most MaxConfigs models, no transformer named twice
MapperLists(names) ==
    UNION {{m \in [1..k -> TransformerPhaseMapperModels(names)] :
                \A i, j \in 1..k : i # j => m[i].tr_name # m[j].tr_name} :
            k \in 0..MaxConfigs}

\* the two endpoints of the edge called name
EdgeNodes(G, name) == get_nodes_by_edge_names(G, {name})

PhaseState == [c |-> container, tm |-> transformer_mapper, err |-> perr]

PhaseStep(st, next_pc) ==
    /\ container' = st.c
    /\ transformer_mapper' = st.tm
    /\ perr' = st.err
    /\ pc' = IF st.err = "ok" THEN next_pc ELSE "raised"
    /\ UNCHANGED <<graphVars, voltVars, sessionVars, mapper, method, enum_first, asset_mapping,
                   mapper_class>>

PhaseInit ==
    /\ graph \in MapperGraphs
    /\ call = [op |-> "init", args |-> <<>>]
    /\ result = [err |-> "ok", value |-> NoTree]
    /\ ncalls = 0 /\ SessionIdle
    /\ mapper \in MapperLists(AllEdgeNames(graph) \cup {BogusName})
    /\ method \in Methods
    /\ enum_first \in {f \in [MapperNames(mapper) \cap AllEdgeNames(graph) -> DOMAIN graph.node_data] :
                          \A t \in DOMAIN f : f[t] \in EdgeNodes(graph, t)}
    /\ container = <<>> /\ transformer_mapper = <<>>
    /\ pc = "init" /\ perr = "ok"
    /\ asset_mapping = <<>> /\ mapper_class = "BalancedPhaseMapper"
    /\ VoltIdle

\* BalancedPhaseMapper.__init__ up to super().__init__(graph)
BalancedPhaseMapperInit ==
    /\ pc = "init"
    /\ PhaseStep([PhaseState EXCEPT !.err = phase_init_check(graph, mapper)], "transformer_nodes")

\* node_phase_mapping, first call: _update_transformer_node_phases
UpdateTransformerNodePhases ==
    /\ pc = "transformer_nodes"
    /\ \E labels \in IF method = "kmeans" THEN [MapperNames(mapper) -> 1..3]
                     ELSE {[t \in MapperNames(mapper) |-> 1]} :
         PhaseStep(update_transformer_node_phases(graph, PhaseState, mapper, labels, 1), "upward")

\* node_phase_mapping, second call: _update_node_phases_upward_from_transformer
UpdateNodePhasesUpward ==
    /\ pc = "upward"
    /\ \E pythonbreakpoint \in {"pdb", "0"} :
         PhaseStep(upward_from_transformers(graph, PhaseState, mapper, 1, pythonbreakpoint),
                   "downward")

\* node_phase_mapping, third call: _update_node_phases_downward_from_transformer
UpdateNodePhasesDownward ==
    /\ pc = "downward"
    /\ PhaseStep(downward_from_transformers(graph, PhaseState, mapper, 1), "assets")

\* _validate_asset_phases, line 37: first read of asset_phase_mapping
AssetPhaseMapping ==
    /\ pc = "assets"
    /\ LET r == asset_phase_mapping(graph, container)
       IN /\ asset_mapping' = r.value
          /\ perr' = r.err
          /\ pc' = IF r.err = "ok" THEN "validate" ELSE "raised"
    /\ UNCHANGED <<graphVars, voltVars, sessionVars, mapper, method, enum_first, container,
                   transformer_mapper, mapper_class>>

\* _validate_asset_phases, lines 37-41: the subset test, node by node
ValidateAssetPhases ==
    /\ pc = "validate"
    /\ perr' = validate_asset_phases(graph.nodes, container, asset_mapping, 1)
    /\ pc' = IF perr' = "ok" THEN "done" ELSE "raised"
    /\ UNCHANGED <<graphVars, voltVars, sessionVars, mapper, method, enum_first, container,
                   transformer_mapper, asset_mapping, mapper_class>>

PhaseNext == BalancedPhaseMapperInit \/ UpdateTransformerNodePhases \/ UpdateNodePhasesUpward
                \/ UpdateNodePhasesDownward \/ AssetPhaseMapping \/ ValidateAssetPhases

SpecPhase == PhaseInit /\ [][PhaseNext]_vars

----------------------------------------------------------------------------
(* Construction of any BasePhaseMapper subclass: the tables come from the subclass *)

SubclassNodes == 3

PhaseChoices == {{"A"}, {"B"}, {"A", "B", "C"}, {"S1", "S2"}}

\* a subclass whose node_phase_mapping and asset_phase_mapping are arbitrary tables
\* over the nodes of the graph and their assets
SubclassInit ==
    /\ graph \in {G \in MapperGraphs : Len(G.nodes) <= SubclassNodes}
    /\ call = [op |-> "init", args |-> <<>>]
    /\ result = [err |-> "ok", value |-> NoTree]
    /\ ncalls = 0 /\ SessionIdle
    /\ mapper = <<>> /\ method = "greedy" /\ enum_first = <<>>
    /\ transformer_mapper = <<>>
    /\ container \in [DOMAIN graph.node_data -> PhaseChoices]
    /\ \E ph \in [DOMAIN graph.node_data -> PhaseChoices] :
         asset_mapping = [n \in DOMAIN graph.node_data |->
                             [a \in graph.node_data[n].assets |-> ph[n]]]
    /\ pc = "validate" /\ perr = "ok"
    /\ mapper_class = "subclass"
    /\ VoltIdle

AssetsInit == PhaseInit \/ SubclassInit

SpecAssets == AssetsInit /\ [][PhaseNext]_vars

----------------------------------------------------------------------------
(* mapper/transformer_voltage_mapper.py *)

Kv == {1, 2}

\* TransformerVoltageModel(name, voltages): a primary and a secondary voltage
TransformerVoltageModels(names) == [name : names, voltages : [1..2 -> Kv]]

VoltageNames(xv) == {xv[i].name : i \in DOMAIN xv}


\* TransformerVoltageMapper.__init__, lines 30-43: "ok" or the exception raised
voltage_init_check(G, xv) ==
    IF TransformerEdgeNames(G) \ VoltageNames(xv) # {} THEN "ValueError" ELSE "ok"

\* max(...) / min(...) of a non-empty collection
Compare(compare_func, S) ==
    IF compare_func = "max" THEN CHOOSE x \in S : \A y \in S : y <= x
    ELSE CHOOSE x \in S : \A y \in S : x <= y

\* _update_mapper_by_func
update_mapper_by_func(nodes, xfmr, m, compare_func) ==
    LET v == Compare(compare_func, Range(xfmr.voltages))
    IN [x \in DOMAIN m \cup nodes |->
           IF x \notin nodes THEN m[x]
           ELSE IF x \in DOMAIN m THEN Compare(compare_func, {m[x], v})
           ELSE v]

\* the DFS parent of n only
Ancestors_parent_only(tree, n) == {a \in tree.nodes : <<a, n>> \in tree.arcs}

\* nx.ancestors(tree, n)
Ancestors(tree, n) == {a \in tree.nodes : n \in Descendants(tree, a)}

\* node_voltage_mapping, lines 69-86: for xfmr, edge in zip(self.xfmr_voltage, edges)
RECURSIVE node_voltage_loop(_, _, _, _, _)
node_voltage_loop(dfs_tree, xv, edges, i, m) ==
    IF i > Len(xv) \/ i > Len(edges) THEN m
    ELSE LET from_node == edges[i][1]
             to_node == edges[i][2]
             down == <<from_node, to_node>> \in dfs_tree.arcs
             ht_node == IF down THEN from_node ELSE to_node
             lt_node == IF down THEN to_node ELSE from_node
             m1 == update_mapper_by_func(Ancestors(dfs_tree, lt_node), xv[i], m, "max")
             m2 == update_mapper_by_func(Descendants(dfs_tree, ht_node), xv[i], m1, "min")
         IN node_voltage_loop(dfs_tree, xv, edges, i + 1, m2)

\* TransformerVoltageMapper.node_voltage_mapping
node_voltage_mapping(G, xv) ==
    LET edges == SelectSeq(get_edges(G), LAMBDA e : e[3].name \in VoltageNames(xv))
    IN node_voltage_loop(get_dfs_tree(G).value, xv, edges, 1, <<>>)

----------------------------------------------------------------------------
(* Construction and use of a TransformerVoltageMapper on a radial graph *)

\* the config lists: at most MaxConfigs models, no transformer named twice
VoltageLists(names) ==
    UNION {{xv \in [1..k -> TransformerVoltageModels(names)] :
                \A i, j \in 1..k : i # j => xv[i].name # xv[j].name} :
            k \in 0..MaxConfigs}

VoltInit ==
    /\ graph \in MapperGraphs
    /\ call = [op |-> "init", args |-> <<>>]
    /\ result = [err |-> "ok", value |-> NoTree]
    /\ ncalls = 0 /\ SessionIdle
    /\ PhaseIdle
    /\ xfmr_voltage \in VoltageLists(AllEdgeNames(graph) \cup {BogusName})
    /\ vpc = "init" /\ verr = "ok" /\ node_voltages = <<>>

\* TransformerVoltageMapper(graph, xfmr_voltage)
TransformerVoltageMapperInit ==
    /\ vpc = "init"
    /\ verr' = voltage_init_check(graph, xfmr_voltage)
    /\ vpc' = IF verr' = "ok" THEN "constructed" ELSE "raised"
    /\ UNCHANGED <<graphVars, phaseVars, sessionVars, xfmr_voltage, node_voltages>>

\* first read of the cached property node_voltage_mapping
NodeVoltageMapping ==
    /\ vpc = "constructed"
    /\ node_voltages' = node_voltage_mapping(graph, xfmr_voltage)
    /\ vpc' = "mapped"
    /\ UNCHANGED <<graphVars, phaseVars, sessionVars, xfmr_voltage, verr>>

VoltNext == TransformerVoltageMapperInit \/ NodeVoltageMapping

SpecVoltage == VoltInit /\ [][VoltNext]_vars

----------------------------------------------------------------------------
(* greedy_allocations on lists of (name, capacity) *)

MaxWeights == 9
MaxCapacity == 3

\* len(ht_phases): both phase tables hold three tuples, and greedy_allocations is
\* only ever called with that many categories
NumCategories == 3

\* [(tr.tr_name, tr.tr_capacity) for tr in trs]: the i-th transformer is named i
Weights(caps) == [i \in DOMAIN caps |-> [tr_name |-> i, tr_capacity |-> caps[i]]]

GreedyInit ==
    /\ graph = EmptyGraph
    /\ \E n \in 0..MaxWeights : \E caps \in [1..n -> 1..MaxCapacity] :
         call = [op |-> "greedy_allocations", args |-> <<Weights(caps), NumCategories>>]
    /\ result = [err |-> "ok", value |-> NoTree]
    /\ ncalls = 0 /\ SessionIdle
    /\ PhaseIdle /\ VoltIdle

\* allocations = greedy_allocations(weights, num_categories)
GreedyAllocations ==
    /\ call.op = "greedy_allocations"
    /\ ncalls = 0
    /\ ncalls' = 1
    /\ result' = [err |-> "ok", value |-> greedy_allocations(call.args[1], call.args[2])]
    /\ UNCHANGED <<graph, call, phaseVars, voltVars, sessionVars>>

GreedyNext == GreedyAllocations

SpecGreedy == GreedyInit /\ [][GreedyNext]_vars

----------------------------------------------------------------------------
(* constants.py and system_builder.py: DistributionSystemBuilder *)

\* EQUIPMENT_TO_CLASS_TYPE.get(edge_type); DistributionBranchBase has no entry
EQUIPMENT_TO_CLASS_TYPE(edge_type) ==
    IF edge_type = MatrixImpedanceBranch THEN "MatrixImpedanceBranchEquipment"
    ELSE IF edge_type = DistributionTransformer THEN "DistributionTransformerEquipment"
    ELSE "NoneType"

\* voltages are integers in volt; sqrt(3) is 1732/1000
\* _get_wdg_voltages: rated_voltage / (1/sqrt(3) if LINE_TO_GROUND else 1 if not
\* is_center_tapped else 2), per winding
get_wdg_voltages(tr_equipment) ==
    [i \in DOMAIN tr_equipment.windings |->
        LET wdg == tr_equipment.windings[i]
        IN IF wdg.voltage_type = "LINE_TO_GROUND" THEN (wdg.rated_voltage * 1732) \div 1000
           ELSE IF ~tr_equipment.is_center_tapped THEN wdg.rated_voltage
           ELSE wdg.rated_voltage \div 2]

Abs(x) == IF x < 0 THEN -x ELSE x

\* buses[abs(voltages - el).argmin()]: the first of from_node, to_node at the minimum
ClosestBus(from_node, to_node, nv, el) ==
    IF Abs(nv[from_node] - el) <= Abs(nv[to_node] - el) THEN from_node ELSE to_node

\* _get_wdg_buses: [err, value]
get_wdg_buses(from_node, to_node, tr_equipment, nv) ==
    LET wdg_voltages == get_wdg_voltages(tr_equipment)
        mapped_buses == [i \in DOMAIN wdg_voltages |->
                            ClosestBus(from_node, to_node, nv, wdg_voltages[i])]
    IN IF Cardinality(Range(mapped_buses)) # Cardinality(Range(wdg_voltages))
       THEN [err |-> "ValueError", value |-> <<>>]
       ELSE [err |-> "ok", value |-> mapped_buses]

HasSplitPhase(phases) == {"S1", "S2"} \cap phases # {}

\* list.insert(idx, x) with a 0-based idx; an idx past the end appends
ListInsert(l, idx, x) ==
    LET k == IF idx > Len(l) THEN Len(l) ELSE idx
    IN SubSeq(l, 1, k) \o <<x>> \o SubSeq(l, k + 1, Len(l))

\* lines 175-177: for idx, wdg_ph in enumerate(wdg_phases)
RECURSIVE InsertNonSplit(_, _, _)
InsertNonSplit(split_phases, wdg_phases, i) ==
    IF i > Len(wdg_phases) THEN split_phases
    ELSE InsertNonSplit(IF ~HasSplitPhase(wdg_phases[i])
                        THEN ListInsert(split_phases, i - 1, wdg_phases[i])
                        ELSE split_phases,
                        wdg_phases, i + 1)

\* _get_wdg_phases: [err, value]
get_wdg_phases(wdg_buses, np) ==
    LET wdg_phases == [i \in DOMAIN wdg_buses |-> np[wdg_buses[i]]]
        is_split_phase == HasSplitPhase(UNION Range(wdg_phases))
    IN IF ~is_split_phase THEN [err |-> "ok", value |-> wdg_phases]
       ELSE IF Len(wdg_buses) # 3 \/ Cardinality(Range(wdg_buses)) # 2
       THEN [err |-> "ValueError", value |-> <<>>]
       ELSE [err |-> "ok",
             value |-> InsertNonSplit(<<{"S1", "N"}, {"N", "S2"}>>, wdg_phases, 1)]

\* _add_transformer: [err, value], value the DistributionTransformer component
add_transformer(from_node, to_node, edge_data, np, nv, eqm) ==
    LET tr_equipment == eqm[edge_data.name]
        wdg_buses == get_wdg_buses(from_node, to_node, tr_equipment, nv)
        wdg_phases == get_wdg_phases(wdg_buses.value, np)
    IN IF wdg_buses.err # "ok" THEN wdg_buses
       ELSE IF wdg_phases.err # "ok" THEN wdg_phases
       ELSE [err |-> "ok",
             value |-> [name |-> edge_data.name, buses |-> wdg_buses.value,
                        winding_phases |-> wdg_phases.value, equipment |-> tr_equipment]]

\* _add_branch: the branch component
add_branch(from_node, to_node, edge_data, np, eqm) ==
    [name |-> edge_data.name, buses |-> <<from_node, to_node>>,
     phases |-> np[from_node] \cap np[to_node],
     equipment |-> eqm[edge_data.name], length |-> edge_data.length]

\* _add_bus: the DistributionBus component
add_bus(node_obj, np, nv) ==
    [name |-> node_obj.name, phases |-> np[node_obj.name],
     rated_voltage |-> nv[node_obj.name], voltage_type |-> "LINE_TO_GROUND"]

\* _add_asset for every asset of the node, one component per asset type
add_assets(node_obj, am) ==
    {[asset_type |-> a, bus |-> node_obj.name, phases |-> am[node_obj.name][a]] :
        a \in node_obj.assets}

EmptySystem == [buses |-> <<>>, assets |-> {}, branches |-> <<>>, transformers |-> <<>>]

\* _build_system, lines 69-72: the loop over get_nodes() from the i-th node on
RECURSIVE BuildNodes(_, _, _, _, _, _)
BuildNodes(G, np, nv, am, sys, i) ==
    IF i > Len(G.nodes) THEN [err |-> "ok", value |-> sys]
    ELSE LET node_obj == G.node_data[G.nodes[i]]
         IN IF node_obj.name \notin DOMAIN np \/ node_obj.name \notin DOMAIN nv
            THEN [err |-> "KeyError", value |-> EmptySystem]
            ELSE BuildNodes(G, np, nv, am,
                            [sys EXCEPT !.buses = Append(@, add_bus(node_obj, np, nv)),
                                        !.assets = @ \cup add_assets(node_obj, am)],
                            i + 1)

\* _build_system, lines 74-89: the loop over get_edges() from the i-th edge on
RECURSIVE BuildEdges(_, _, _, _, _, _)
BuildEdges(edges, np, nv, eqm, sys, i) ==
    IF i > Len(edges) THEN [err |-> "ok", value |-> sys]
    ELSE LET from_node == edges[i][1]
             to_node == edges[i][2]
             edge_data == edges[i][3]
             equipment == eqm[edge_data.name]
         IN IF equipment.type # EQUIPMENT_TO_CLASS_TYPE(edge_data.edge_type)
            THEN [err |-> "NotImplementedError", value |-> EmptySystem]
            ELSE IF IsBranchType(edge_data.edge_type)
            THEN BuildEdges(edges, np, nv, eqm,
                     [sys EXCEPT !.branches =
                          Append(@, add_branch(from_node, to_node, edge_data, np, eqm))],
                     i + 1)
            ELSE LET tr == add_transformer(from_node, to_node, edge_data, np, nv, eqm)
                 IN IF tr.err # "ok" THEN [err |-> tr.err, value |-> EmptySystem]
                    ELSE BuildEdges(edges, np, nv, eqm,
                             [sys EXCEPT !.transformers = Append(@, tr.value)], i + 1)

\* DistributionSystemBuilder.__init__ / _build_system: [err, value]
build_system(G, np, nv, am, eqm) ==
    LET nodes == BuildNodes(G, np, nv, am, EmptySystem, 1)
    IN IF nodes.err # "ok" THEN nodes
       ELSE BuildEdges(get_edges(G), np, nv, eqm, nodes.value, 1)

----------------------------------------------------------------------------
(* Construction of a DistributionSystemBuilder: graph, mappers, equipment mapping *)

BuilderNodes == 3

MatrixImpedanceBranchEquipment ==
    [type |-> "MatrixImpedanceBranchEquipment", windings |-> <<>>, is_center_tapped |-> FALSE]

WindingEquipment(rated_voltage, voltage_type) ==
    [rated_voltage |-> rated_voltage, voltage_type |-> voltage_type]

DistributionTransformerEquipment(windings, is_center_tapped) ==
    [type |-> "DistributionTransformerEquipment", windings |-> windings,
     is_center_tapped |-> is_center_tapped]

\* tests/test_system_builder.py, MockEquipmentMapper: 7.2 kV and twice 120 V, line to ground
MockTransformerEquipment ==
    DistributionTransformerEquipment(<<WindingEquipment(7200, "LINE_TO_GROUND"),
                                       WindingEquipment(120, "LINE_TO_GROUND"),
                                       WindingEquipment(120, "LINE_TO_GROUND")>>, TRUE)

\* a transformer whose two windings have one effective voltage
OneToOneTransformerEquipment ==
    DistributionTransformerEquipment(<<WindingEquipment(7200, "LINE_TO_GROUND"),
                                       WindingEquipment(7200, "LINE_TO_GROUND")>>, FALSE)

WindingChoices ==
    {WindingEquipment(7200, "LINE_TO_GROUND"), WindingEquipment(7200, "LINE_TO_LINE"),
     WindingEquipment(120, "LINE_TO_GROUND"), WindingEquipment(240, "LINE_TO_LINE")}

\* the equipment an edge may be mapped to: any transformer of two or three windings,
\* or a branch equipment
EquipmentCatalogue ==
    {MatrixImpedanceBranchEquipment}
    \cup {DistributionTransformerEquipment(w, ct) :
            w \in [1..2 -> WindingChoices] \cup [1..3 -> WindingChoices], ct \in BOOLEAN}

SmallCatalogue ==
    {MatrixImpedanceBranchEquipment, MockTransformerEquipment, OneToOneTransformerEquipment}

\* bus voltages in volt and node phase sets of the mapper tables
BusVoltages == {120, 7200}
BusPhases == {{"A"}, {"A", "B", "C"}, {"S1", "N", "S2"}}

\* a radial graph whose edge c has the edge type ty[c]
RECURSIVE BuildTypedEdges(_, _, _, _, _)
BuildTypedEdges(G, n, par, ty, c) ==
    IF c > n THEN G
    ELSE LET e == [name |-> c, edge_type |-> ty[c],
                   length |-> IF ty[c] = DistributionTransformer THEN None ELSE 1]
         IN BuildTypedEdges(add_edge(G, StrEndpoint(par[c]), StrEndpoint(c), e).graph,
                            n, par, ty, c + 1)

BuildTypedTree(n, par, ty) ==
    LET nm(i) == NodeModel(i, IF i = 1 THEN {DistributionVoltageSource}
                              ELSE IF i \in Leaves(n, par) THEN {DistributionLoad} ELSE {})
    IN BuildTypedEdges(add_nodes(EmptyGraph, [i \in 1..n |-> nm(i)]).graph, n, par, ty, 2)

BuilderGraphs ==
    UNION {{BuildTypedTree(n, par, ty) : par \in ParentMaps(n), ty \in [2..n -> EdgeTypes]} :
            n \in 2..BuilderNodes}

\* tests/test_system_builder.py, complete_distribution_graph: the substation 1, the
\* secondaries 2, 5, 8 behind the transformers 2, 5, 8, two loads behind each secondary
CompleteParents == <<1, 1, 2, 2, 1, 5, 5, 1, 8, 8>>
CompleteTransformers == {2, 5, 8}
complete_distribution_graph ==
    BuildTree(Len(CompleteParents), [c \in 2..Len(CompleteParents) |-> CompleteParents[c]],
              CompleteTransformers, Leaves(Len(CompleteParents), CompleteParents))

\* MockEquipmentMapper.edge_equipment_mapping
MockEdgeEquipment(G) ==
    [name \in AllEdgeNames(G) |->
        IF name \in TransformerEdgeNames(G) THEN MockTransformerEquipment
        ELSE MatrixImpedanceBranchEquipment]

BuilderCall(eqm) == [op |-> "DistributionSystemBuilder", args |-> <<eqm>>]

\* test_build_complete_distribution_system: three SPLIT_PHASE transformers of one
\* capacity, greedy; voltages [7.2 kV, 120 V]; the mappers not yet evaluated
CompleteInit ==
    /\ graph = complete_distribution_graph
    /\ call = BuilderCall(MockEdgeEquipment(graph))
    /\ result = [err |-> "ok", value |-> NoTree]
    /\ ncalls = 0 /\ SessionIdle
    /\ mapper = [i \in 1..3 |-> [tr_name |-> 3 * i - 1, tr_type |-> "SPLIT_PHASE",
                                 tr_capacity |-> 1]]
    /\ method = "greedy"
    /\ enum_first \in {f \in [MapperNames(mapper) -> DOMAIN graph.node_data] :
                          \A t \in DOMAIN f : f[t] \in EdgeNodes(graph, t)}
    /\ container = <<>> /\ transformer_mapper = <<>>
    /\ pc = "init" /\ perr = "ok"
    /\ asset_mapping = <<>> /\ mapper_class = "BalancedPhaseMapper"
    /\ xfmr_voltage = [i \in 1..3 |-> [name |-> 3 * i - 1, voltages |-> <<7200, 120>>]]
    /\ vpc = "init" /\ verr = "ok" /\ node_voltages = <<>>

\* mappers of any class, already evaluated: arbitrary tables over the nodes
TablesInit ==
    /\ graph \in BuilderGraphs
    /\ \E eqm \in [AllEdgeNames(graph) ->
                      IF Len(graph.nodes) = 2 THEN EquipmentCatalogue ELSE SmallCatalogue] :
         call = BuilderCall(eqm)
    /\ result = [err |-> "ok", value |-> NoTree]
    /\ ncalls = 0 /\ SessionIdle
    /\ mapper = <<>> /\ method = "greedy" /\ enum_first = <<>>
    /\ transformer_mapper = <<>>
    /\ container \in [DOMAIN graph.node_data -> BusPhases]
    /\ asset_mapping = [n \in DOMAIN graph.node_data |->
                           [a \in graph.node_data[n].assets |-> container[n]]]
    /\ pc = "done" /\ perr = "ok"
    /\ mapper_class = "subclass"
    /\ xfmr_voltage = <<>> /\ vpc = "mapped" /\ verr = "ok"
    /\ node_voltages \in [DOMAIN graph.node_data -> BusVoltages]

BuildInit == CompleteInit \/ TablesInit

\* DistributionSystemBuilder(name, dist_graph, phase_mapper, voltage_mapper,
\* equipment_mapper): the tables are read from the constructed mappers
BuildSystem ==
    /\ call.op = "DistributionSystemBuilder"
    /\ pc = "done" /\ vpc = "mapped"
    /\ ncalls = 0
    /\ ncalls' = 1
    /\ result' = build_system(graph, container, node_voltages, asset_mapping, call.args[1])
    /\ UNCHANGED <<graph, call, phaseVars, voltVars, sessionVars>>

BuildNext == PhaseNext \/ VoltNext \/ BuildSystem

SpecBuild == BuildInit /\ [][BuildNext]_vars

----------------------------------------------------------------------------
(* graph/openstreet_graph_builder.py: conversion of the welded network and
   explosion of the transformer nodes *)

ExplodeNodes == 4

\* Location(x=graph.nodes[node]["x"], y=graph.nodes[node]["y"]) of the network node
LocationOf(node) == 100 + node

\* NodeModel(name=..., location=..., assets=...)
LocatedNodeModel(name, location, assets) ==
    [name |-> name, assets |-> assets, location |-> location]

\* f"{node_obj.name}_ht"
HtName(name) == name + ExplodeNodes

\* str(uuid.uuid4()): a name no edge of the graph carries
uuid4(G) ==
    LET used == {G.edge_data[k].name : k \in DOMAIN G.edge_data}
    IN IF used = {} THEN 1 ELSE 1 + CHOOSE x \in used : \A y \in used : y <= x

\* DistributionGraph.get_edge: [err, value]
get_edge(G, from_node, to_node) ==
    IF ~HasEdge(G, from_node, to_node) THEN [err |-> "EdgeDoesNotExist", value |-> None]
    ELSE [err |-> "ok", value |-> G.edge_data[{from_node, to_node}]]

\* _get_distribution_graph_from_network, lines 263-274: the nodes of one network edge
ConvertNode(r, node, source, loads) ==
    IF r.err # "ok" \/ HasNode(r.graph, node) THEN r
    ELSE add_node(r.graph,
                  LocatedNodeModel(node, LocationOf(node),
                                   (IF node = source THEN {DistributionVoltageSource} ELSE {})
                                   \cup (IF node \in loads THEN {DistributionLoad} ELSE {})))

\* _get_distribution_graph_from_network, lines 260-287: for edge in graph.edges
RECURSIVE ConvertEdges(_, _, _, _, _)
ConvertEdges(r, edges, source, loads, i) ==
    IF i > Len(edges) \/ r.err # "ok" THEN r
    ELSE LET r1 == ConvertNode(ConvertNode(r, edges[i][1], source, loads),
                               edges[i][2], source, loads)
             e == [name |-> uuid4(r1.graph), edge_type |-> DistributionBranchBase,
                   length |-> 1]
         IN ConvertEdges(IF r1.err # "ok" THEN r1
                         ELSE add_edge(r1.graph, StrEndpoint(edges[i][1]),
                                       StrEndpoint(edges[i][2]), e),
                         edges, source, loads, i + 1)

\* list(dfs_tree.predecessors(node)) of a node of the tree
RECURSIVE SetToSeq(_)
SetToSeq(S) ==
    IF S = {} THEN <<>>
    ELSE LET x == CHOOSE y \in S : \A z \in S : y <= z
         IN <<x>> \o SetToSeq(S \ {x})
Predecessors(tree, node) == SetToSeq({p \in tree.nodes : <<p, node>> \in tree.arcs})

\* _explode_transformer_node, lines 228-230: for pred, edge_data in zip(...)
RECURSIVE MoveEdges(_, _, _, _, _, _)
MoveEdges(r, node, new_name, predecessors, edges, i) ==
    IF i > Len(predecessors) \/ r.err # "ok" THEN r
    ELSE LET r1 == add_edge(r.graph, StrEndpoint(predecessors[i]), StrEndpoint(new_name),
                            edges[i])
         IN MoveEdges(IF r1.err # "ok" THEN r1
                      ELSE remove_edge(r1.graph, node, predecessors[i]),
                      node, new_name, predecessors, edges, i + 1)

\* _explode_transformer_node without the loop over the predecessors
ExplodeOne_no_move(G, dfs_tree, node) ==
    IF ~HasNode(G, node) THEN Raise(G, "NodeDoesNotExist")
    ELSE LET node_obj == G.node_data[node]
             new_node == LocatedNodeModel(HtName(node_obj.name), node_obj.location, {})
             r1 == add_node(G, new_node)
         IN IF r1.err # "ok" THEN r1
            ELSE add_edge(r1.graph, StrEndpoint(node_obj.name), StrEndpoint(new_node.name),
                          [name |-> uuid4(r1.graph), edge_type |-> DistributionTransformer,
                           length |-> None])

\* _explode_transformer_node, lines 223-234: one transformer node
ExplodeOne(G, dfs_tree, node) ==
    IF ~HasNode(G, node) THEN Raise(G, "NodeDoesNotExist")
    ELSE LET node_obj == G.node_data[node]
             new_node == LocatedNodeModel(HtName(node_obj.name), node_obj.location, {})
             r1 == add_node(G, new_node)
         IN IF r1.err # "ok" THEN r1
            ELSE IF node \notin dfs_tree.nodes THEN Raise(r1.graph, "NetworkXError")
            ELSE LET predecessors == Predecessors(dfs_tree, node)
                     got == [i \in DOMAIN predecessors |->
                                get_edge(r1.graph, predecessors[i], node)]
                 IN IF \E i \in DOMAIN got : got[i].err # "ok"
                    THEN Raise(r1.graph, "EdgeDoesNotExist")
                    ELSE LET r2 == MoveEdges(r1, node, new_node.name, predecessors,
                                             [i \in DOMAIN got |-> got[i].value], 1)
                         IN IF r2.err # "ok" THEN r2
                            ELSE add_edge(r2.graph, StrEndpoint(node_obj.name),
                                          StrEndpoint(new_node.name),
                                          [name |-> uuid4(r2.graph),
                                           edge_type |-> DistributionTransformer,
                                           length |-> None])

RECURSIVE ExplodeLoop(_, _, _, _)
ExplodeLoop(r, dfs_tree, order, i) ==
    IF i > Len(order) \/ r.err # "ok" THEN r
    ELSE ExplodeLoop(ExplodeOne(r.graph, dfs_tree, order[i]), dfs_tree, order, i + 1)

\* _explode_transformer_node(graph, transformer_nodes); order is the iteration order
\* of set(transformer_nodes)
explode_transformer_node(G, order) ==
    LET dfs_tree == get_dfs_tree(G)
    IN IF dfs_tree.err # "ok" THEN Raise(G, dfs_tree.err)
       ELSE ExplodeLoop(Ok(G), dfs_tree.value, order, 1)

\* the DistributionGraph of lines 257-287, before the explosion
converted_graph(edges, source, loads) == ConvertEdges(Ok(EmptyGraph), edges, source, loads, 1)

\* _get_distribution_graph_from_network
get_distribution_graph_from_network(edges, order, source, loads) ==
    LET r == converted_graph(edges, source, loads)
    IN IF r.err # "ok" THEN r ELSE explode_transformer_node(r.graph, order)

----------------------------------------------------------------------------
(* The welded networks: a tree, or a tree and one more edge, a substation node,
   load nodes and transformer nodes *)

NetworkEdges ==
    UNION {{[c \in 1..(n - 1) |-> <<par[c + 1], c + 1>>] \o extra :
              par \in ParentMaps(n),
              extra \in {<<>>} \cup {<<<<u, v>>>> : u \in 1..n, v \in 1..n}} :
           n \in 2..ExplodeNodes}

NetworkNodes(edges) == UNION {{edges[i][1], edges[i][2]} : i \in DOMAIN edges}

\* no self loop and no edge twice
SimpleNetwork(edges) ==
    /\ \A i \in DOMAIN edges : edges[i][1] # edges[i][2]
    /\ \A i, j \in DOMAIN edges :
         i # j => {edges[i][1], edges[i][2]} # {edges[j][1], edges[j][2]}

Orders(S) == {f \in [1..Cardinality(S) -> S] : \A i, j \in DOMAIN f : i # j => f[i] # f[j]}

ExplodeInit ==
    /\ graph = EmptyGraph
    /\ \E edges \in {e \in NetworkEdges : SimpleNetwork(e)} :
         \E source \in NetworkNodes(edges) :
            \E transformer_nodes \in SUBSET NetworkNodes(edges) :
               call = [op |-> "_get_distribution_graph_from_network",
                       args |-> <<edges, transformer_nodes, source,
                                  NetworkNodes(edges) \ ({source} \cup transformer_nodes)>>]
    /\ result = [err |-> "ok", value |-> NoTree]
    /\ ncalls = 0 /\ SessionIdle
    /\ PhaseIdle /\ VoltIdle

\* dist_graph = self._get_distribution_graph_from_network(graph, transformer_nodes,
\* asset_nodes)
GetDistributionGraphFromNetwork ==
    /\ call.op = "_get_distribution_graph_from_network"
    /\ ncalls = 0
    /\ ncalls' = 1
    /\ \E order \in Orders(call.args[2]) :
         LET r == get_distribution_graph_from_network(call.args[1], order, call.args[3],
                                                      call.args[4])
         IN /\ graph' = r.graph
            /\ result' = [err |-> r.err, value |-> NoTree]
    /\ UNCHANGED <<call, phaseVars, voltVars, sessionVars>>

ExplodeNext == GetDistributionGraphFromNetwork

SpecExplode == ExplodeInit /\ [][ExplodeNext]_vars

----------------------------------------------------------------------------
(* mapper/edge_equipment_mapper.py: _get_closest_transformer_equipment *)

MaxCatalog == 2

\* WindingEquipment(rated_power, num_phases, rated_voltage)
CatalogWinding(rated_power, num_phases, rated_voltage) ==
    [rated_power |-> rated_power, num_phases |-> num_phases, rated_voltage |-> rated_voltage]

\* sorted(xs, reverse=True) of numbers
RECURSIVE SortedReverse(_)
SortedReverse(xs) ==
    IF xs = <<>> THEN <<>>
    ELSE LET rest == SortedReverse(SubSeq(xs, 1, Len(xs) - 1))
             x == xs[Len(xs)]
             pos == Cardinality({i \in DOMAIN rest : rest[i] >= x})
         IN SubSeq(rest, 1, pos) \o <<x>> \o SubSeq(rest, pos + 1, Len(rest))

Min(S) == CHOOSE x \in S : \A y \in S : x <= y

\* v2 < 0.85 * v1 or v2 >= 1.15 * v1
OutOfTolerance(v1, v2) == 100 * v2 < 85 * v1 \/ 100 * v2 >= 115 * v1

\* zip(sorted(voltages, reverse=True), sorted(wdg_voltages, reverse=True)[:len(voltages)])
VoltagePairs(voltages, wdg_voltages) ==
    LET vs == SortedReverse(voltages)
        top == SortedReverse(wdg_voltages)
        ws == SubSeq(top, 1, Min({Len(voltages), Len(top)}))
    IN [i \in 1..Min({Len(vs), Len(ws)}) |-> <<vs[i], ws[i]>>]

\* the filter with the test of every endpoint voltage against any winding voltage
filter_func_any_winding(x, capacity, num_phase, voltages) ==
    LET min_capacity == Min({x.windings[i].rated_power : i \in DOMAIN x.windings})
    IN IF min_capacity <= capacity THEN FALSE
       ELSE IF num_phase = 3 /\ x.windings[1].num_phases # 3 THEN FALSE
       ELSE IF num_phase < 3 /\ x.windings[1].num_phases # Min({num_phase, 1}) THEN FALSE
       ELSE \A i \in DOMAIN voltages : \E j \in DOMAIN x.windings :
               ~OutOfTolerance(voltages[i], x.windings[j].rated_voltage)

\* filter_func, lines 105-119
filter_func(x, capacity, num_phase, voltages) ==
    LET min_capacity == Min({x.windings[i].rated_power : i \in DOMAIN x.windings})
        wdg_voltages == [i \in DOMAIN x.windings |-> x.windings[i].rated_voltage]
        pairs == VoltagePairs(voltages, wdg_voltages)
    IN IF min_capacity <= capacity THEN FALSE
       ELSE IF num_phase = 3 /\ x.windings[1].num_phases # 3 THEN FALSE
       ELSE IF num_phase < 3 /\ x.windings[1].num_phases # Min({num_phase, 1}) THEN FALSE
       ELSE \A i \in DOMAIN pairs : ~OutOfTolerance(pairs[i][1], pairs[i][2])

\* sorted(trs, key=lambda x: x.windings[0].rated_power)[0]: the first of the smallest
FirstSmallest(trs) ==
    trs[CHOOSE i \in DOMAIN trs : \A j \in DOMAIN trs :
            \/ trs[i].windings[1].rated_power < trs[j].windings[1].rated_power
            \/ (trs[i].windings[1].rated_power = trs[j].windings[1].rated_power /\ i <= j)]

\* _get_closest_transformer_equipment: [err, value]
get_closest_transformer_equipment(catalog, capacity, num_phase, voltages) ==
    LET trs == SelectSeq(catalog, LAMBDA x : filter_func(x, capacity, num_phase, voltages))
    IN IF trs = <<>> THEN [err |-> "EquipmentNotFoundError", value |-> None]
       ELSE [err |-> "ok", value |-> FirstSmallest(trs)]

----------------------------------------------------------------------------
(* Selection of a transformer equipment from a catalogue *)

RatedPowers == {1, 2}
WindingPhases == {1, 3}
\* a low and a high voltage level and the two ends of the tolerance band of the low one
WindingVoltages == {85, 100, 115, 1000}
NodeVoltages == {100, 1000}

\* transformer equipment of two windings, and of three windings of one rated power
CatalogEntries ==
    {<<CatalogWinding(p1, n, v1), CatalogWinding(p2, 1, v2)>> :
        p1 \in RatedPowers, p2 \in RatedPowers, n \in WindingPhases,
        v1 \in WindingVoltages, v2 \in WindingVoltages}
    \cup {<<CatalogWinding(2, n, v[1]), CatalogWinding(2, 1, v[2]), CatalogWinding(2, 1, v[3])>> :
            n \in WindingPhases, v \in [1..3 -> NodeVoltages]}

SelectInit ==
    /\ graph = EmptyGraph
    /\ \E k \in 0..MaxCatalog : \E w \in [1..k -> CatalogEntries] :
         \E capacity \in 0..1, num_phase \in 1..3, voltages \in [1..2 -> NodeVoltages] :
            call = [op |-> "_get_closest_transformer_equipment",
                    args |-> <<[i \in 1..k |-> [name |-> i, windings |-> w[i]]],
                               capacity, num_phase, voltages>>]
    /\ result = [err |-> "ok", value |-> NoTree]
    /\ ncalls = 0 /\ SessionIdle
    /\ PhaseIdle /\ VoltIdle

\* self._get_closest_transformer_equipment(served_load, num_phase, [v_from, v_to])
GetClosestTransformerEquipment ==
    /\ call.op = "_get_closest_transformer_equipment"
    /\ ncalls = 0
    /\ ncalls' = 1
    /\ result' = get_closest_transformer_equipment(call.args[1], call.args[2], call.args[3],
                                                   call.args[4])
    /\ UNCHANGED <<graph, call, phaseVars, voltVars, sessionVars>>

SelectNext == GetClosestTransformerEquipment

SpecSelect == SelectInit /\ [][SelectNext]_vars

----------------------------------------------------------------------------
(* Construction of a phase mapper and a voltage mapper on one radial graph *)

LabelNodes == 4

\* radial graphs whose leaves carry a load or nothing
LabelGraphs ==
    UNION {UNION {{BuildTree(n, par, xf, loads) :
                      xf \in SUBSET (2..n), loads \in SUBSET Leaves(n, par)} :
                  par \in ParentMaps(n)} :
            n \in 2..LabelNodes}

\* configs for some of the transformers, in any order
LabelMapperLists(names) ==
    UNION {{m \in [1..k -> [tr_name : names, tr_type : {"SINGLE_PHASE", "SPLIT_PHASE"},
                            tr_capacity : {1}]] :
                \A i, j \in 1..k : i # j => m[i].tr_name # m[j].tr_name} :
            k \in 0..MaxConfigs}

\* voltage configs, in any order
LabelVoltageLists(names) ==
    UNION {{xv \in [1..k -> [name : names, voltages : {<<2, 1>>}]] :
                \A i, j \in 1..k : i # j => xv[i].name # xv[j].name} :
            k \in 0..MaxConfigs}

LabelInit ==
    /\ graph \in LabelGraphs
    /\ call = [op |-> "init", args |-> <<>>]
    /\ result = [err |-> "ok", value |-> NoTree]
    /\ ncalls = 0 /\ SessionIdle
    /\ mapper \in LabelMapperLists(TransformerEdgeNames(graph))
    /\ method = "greedy"
    /\ enum_first \in {f \in [MapperNames(mapper) -> DOMAIN graph.node_data] :
                          \A t \in DOMAIN f : f[t] \in EdgeNodes(graph, t)}
    /\ container = <<>> /\ transformer_mapper = <<>>
    /\ pc = "init" /\ perr = "ok"
    /\ asset_mapping = <<>> /\ mapper_class = "BalancedPhaseMapper"
    /\ xfmr_voltage \in LabelVoltageLists(AllEdgeNames(graph) \cup {BogusName})
    /\ vpc = "init" /\ verr = "ok" /\ node_voltages = <<>>

\* the voltage mapper is constructed and read first, then the phase mapper
LabelNext == VoltNext \/ (vpc \in {"mapped", "raised"} /\ PhaseNext)

SpecLabels == LabelInit /\ [][LabelNext]_vars

----------------------------------------------------------------------------
(* mapper/edge_equipment_mapper.py: the load served through an edge *)

ServedNodes == 4
MaxPhaseLoads == 2
MaxPhaseKva == 1

\* LoadEquipment: phase_loads holds, per phase load, the kVA of the term that
\* _get_load_power takes the square root for
LoadEquipment(phase_loads) == [kind |-> "LoadEquipment", phase_loads |-> phase_loads]

\* an equipment that is not a LoadEquipment
NotLoadEquipment == [kind |-> "MatrixImpedanceBranchEquipment", phase_loads |-> <<>>]

\* _get_load_power: the sum over load_equipment.phase_loads
RECURSIVE get_load_power(_)
get_load_power(phase_loads) ==
    IF phase_loads = <<>> THEN 0
    ELSE Head(phase_loads) + get_load_power(Tail(phase_loads))

\* lines 92-97: for node in load_nodes; [err, value]
RECURSIVE ServedLoop(_, _, _)
ServedLoop(load_nodes, eqm, served_load) ==
    IF load_nodes = <<>> THEN [err |-> "ok", value |-> served_load]
    ELSE LET equipment == eqm[Head(load_nodes)][DistributionLoad]
         IN IF equipment.kind # "LoadEquipment"
            THEN [err |-> "WrongEquipmentAssigned", value |-> None]
            ELSE ServedLoop(Tail(load_nodes), eqm,
                            served_load + get_load_power(equipment.phase_loads))

\* _get_served_load taking to_node as the parent whatever the DFS tree says
get_served_load_below_to_node(G, eqm, from_node, to_node) ==
    LET dfs_graph == get_dfs_tree(G).value
        descendants == Descendants(dfs_graph, to_node)
        load_nodes == SelectSeq(G.nodes, LAMBDA x : x \in descendants
                                    /\ DistributionLoad \in G.node_data[x].assets)
    IN ServedLoop(load_nodes, eqm, 0)

\* _get_served_load(from_node, to_node); eqm is node_asset_equipment_mapping
get_served_load(G, eqm, from_node, to_node) ==
    LET dfs_graph == get_dfs_tree(G).value
        parent_node == IF <<from_node, to_node>> \in dfs_graph.arcs
                       THEN from_node ELSE to_node
        descendants == Descendants(dfs_graph, parent_node)
        load_nodes == SelectSeq(G.nodes, LAMBDA x : x \in descendants
                                    /\ DistributionLoad \in G.node_data[x].assets)
    IN ServedLoop(load_nodes, eqm, 0)

----------------------------------------------------------------------------
(* _get_served_load on the edges of a radial graph *)

\* radial graphs of branches whose nodes other than the source carry a load or nothing
ServedGraphs ==
    UNION {{BuildTree(n, par, {}, loads) : par \in ParentMaps(n), loads \in SUBSET (2..n)} :
            n \in 2..ServedNodes}

PhaseLoads == UNION {[1..k -> 0..MaxPhaseKva] : k \in 1..MaxPhaseLoads}

\* node_asset_equipment_mapping entries of a load node
LoadEntries == {LoadEquipment(pl) : pl \in PhaseLoads} \cup {NotLoadEquipment}

ServedInit ==
    /\ graph \in ServedGraphs
    /\ \E eqm \in [{n \in DOMAIN graph.node_data :
                       DistributionLoad \in graph.node_data[n].assets} ->
                   [{DistributionLoad} -> LoadEntries]] :
       \E k \in Edges(graph) : \E from_node \in k : \E to_node \in k \ {from_node} :
          call = [op |-> "_get_served_load", args |-> <<from_node, to_node, eqm>>]
    /\ result = [err |-> "ok", value |-> None]
    /\ ncalls = 0 /\ SessionIdle
    /\ PhaseIdle /\ VoltIdle

\* EdgeEquipmentMapper._get_served_load(from_node, to_node)
GetServedLoad ==
    /\ call.op = "_get_served_load"
    /\ ncalls = 0
    /\ ncalls' = 1
    /\ result' = get_served_load(graph, call.args[3], call.args[1], call.args[2])
    /\ UNCHANGED <<graph, call, phaseVars, voltVars, sessionVars>>

ServedNext == GetServedLoad

SpecServed == ServedInit /\ [][ServedNext]_vars

----------------------------------------------------------------------------
(* mapper/balanced_phase_mapper.py: agglomerative allocation *)

AggloNodes == 5
MaxGroup == 4

\* n with its ancestors in the DFS tree
UpSet(tree, n) == Ancestors(tree, n) \cup {n}

\* the nodes of the path between a and b in a tree
PathNodes(tree, a, b) ==
    LET common == UpSet(tree, a) \cap UpSet(tree, b)
        meet == CHOOSE c \in common : common \subseteq UpSet(tree, c)
    IN ((UpSet(tree, a) \cup UpSet(tree, b)) \ common) \cup {meet}

\* steiner_tree(G, terminal_nodes) on a radial graph: the union of the paths between
\* the terminals; the edge-induced subgraph has no node when there is no edge
steiner_tree(G, terminal_nodes) ==
    LET tree == get_dfs_tree(G).value
    IN UNION {PathNodes(tree, p[1], p[2]) :
                 p \in {q \in terminal_nodes \X terminal_nodes : q[1] # q[2]}}

\* _get_distance_matrix(tr_names), line 107: nx.floyd_warshall_numpy(subgraph), one
\* row and one column per node of the subgraph; `order` is the iteration order of
\* the nodes of steiner_tree(G, selected_nodes)
get_distance_matrix(G, tr_names, order) ==
    LET tree == get_dfs_tree(G).value
    IN [nodes |-> order,
        distances |-> [i \in DOMAIN order |-> [j \in DOMAIN order |->
                          Cardinality(PathNodes(tree, order[i], order[j])) - 1]]]

\* _get_allocations(names, labels, n_categories): zip(names, labels)
get_allocations_zip(names, labels, n_categories) ==
    [c \in 1..n_categories |->
        SelectSeq(names, LAMBDA name :
            \E i \in DOMAIN names : i <= Len(labels) /\ names[i] = name /\ labels[i] = c)]

\* agglomerative_allocations: AgglomerativeClustering(n_clusters).fit(distances)
\* needs at least two samples and as many samples as clusters; labels_ has one
\* label per row of distances
agglomerative_allocations(distances, names, num_categories, labels) ==
    IF Len(distances) < 2 \/ Len(distances) < num_categories
    THEN [err |-> "ValueError", value |-> <<>>]
    ELSE [err |-> "ok", value |-> get_allocations_zip(names, labels, num_categories)]

\* _update_single_phase_tr_nodes, lines 165-178, with method "agglomerative":
\* [err, matrix, value]
agglomerative_case(tr_names, num_categories, matrix, labels) ==
    LET r == agglomerative_allocations(matrix.distances, tr_names, num_categories, labels)
        allocated_trs == UNION {Range(r.value[c]) : c \in DOMAIN r.value}
    IN IF r.err # "ok" THEN [err |-> r.err, matrix |-> matrix, value |-> <<>>]
       ELSE IF Range(tr_names) # allocated_trs
       THEN [err |-> "TypeError", matrix |-> matrix, value |-> <<>>]
       ELSE [err |-> "ok", matrix |-> matrix, value |-> r.value]

----------------------------------------------------------------------------
(* Agglomerative allocation of one type group on a radial graph *)

AggloGraphs ==
    UNION {{BuildTree(AggloNodes, par, xf, Leaves(AggloNodes, par)) :
                xf \in SUBSET (2..AggloNodes) \ {{}}} :
            par \in ParentMaps(AggloNodes)}

\* the labelings that use every one of the n clusters
Labelings(rows, n) ==
    {l \in [1..rows -> 1..n] : \A c \in 1..n : \E i \in 1..rows : l[i] = c}

AggloInit ==
    /\ graph \in AggloGraphs
    /\ \E group \in SUBSET TransformerEdgeNames(graph) :
          /\ group # {} /\ Cardinality(group) <= MaxGroup
          /\ \E tr_names \in Orders(group) :
                call = [op |-> "agglomerative", args |-> <<tr_names, NumCategories>>]
    /\ result = [err |-> "ok", matrix |-> [nodes |-> <<>>, distances |-> <<>>],
                 value |-> <<>>]
    /\ ncalls = 0 /\ SessionIdle
    /\ PhaseIdle /\ VoltIdle

\* the "agglomerative" case of _update_single_phase_tr_nodes
AgglomerativeAllocations ==
    /\ call.op = "agglomerative"
    /\ ncalls = 0
    /\ ncalls' = 1
    /\ LET edges == SelectSeq(get_edges(graph), LAMBDA e : e[3].name \in Range(call.args[1]))
           subgraph == steiner_tree(graph, {edges[i][1] : i \in DOMAIN edges})
       IN \E order \in Orders(subgraph) :
             \E matrix \in {get_distance_matrix(graph, call.args[1], order)} :
                \E labels \in IF Cardinality(subgraph) >= call.args[2]
                              THEN Labelings(Cardinality(subgraph), call.args[2])
                              ELSE {<<>>} :
                   result' = agglomerative_case(call.args[1], call.args[2], matrix, labels)
    /\ UNCHANGED <<graph, call, phaseVars, voltVars, sessionVars>>

AggloNext == AgglomerativeAllocations

SpecAgglo == AggloInit /\ [][AggloNext]_vars

----------------------------------------------------------------------------
(* utils/split_network_edges.py
   A network is [nodes, x, edges]: node names, the coordinate of each node along a
   line, and the undirected edges as two-element sets. Lengths are in units of
   1/MetreUnits metre. *)

MetreUnits == 2
SplitNodes == 3
MaxCoord == 5
MaxSplit == 3

\* get_distance_between_points on the line
get_distance_between_points(from_point, to_point) ==
    IF from_point <= to_point THEN to_point - from_point ELSE from_point - to_point

\* np.arange(start, stop, step) with step > 0
RECURSIVE arange(_, _, _)
arange(start, stop, step) ==
    IF start >= stop THEN <<>> ELSE <<start>> \o arange(start + step, stop, step)

\* lines 69-85: one edge longer than split_length; uuid4 names are the integers
\* after the names in use, offsets are x * slice_ * edge_length_m
SliceEdge(sliced_graph, G, edge, split_length) ==
    LET from_node == CHOOSE n \in edge : \A m \in edge : n <= m
        to_node == CHOOSE n \in edge : n # from_node
        x1 == G.x[from_node]
        x2 == G.x[to_node]
        edge_length == get_distance_between_points(x1, x2)
        edge_slices == arange(MetreUnits, edge_length, split_length)
        base == Cardinality(sliced_graph.nodes)
        new_nodes == [i \in DOMAIN edge_slices |-> base + i]
        new_x(i) == IF x1 <= x2 THEN x1 + edge_slices[i] ELSE x1 - edge_slices[i]
        sliced_nodes == <<from_node>> \o new_nodes \o <<to_node>>
    IN [nodes |-> sliced_graph.nodes \cup Range(new_nodes),
        x |-> [n \in sliced_graph.nodes \cup Range(new_nodes) |->
                  IF n \in sliced_graph.nodes THEN sliced_graph.x[n]
                  ELSE new_x(n - base)],
        edges |-> (sliced_graph.edges \ {edge})
                     \cup {{sliced_nodes[i], sliced_nodes[i + 1]} :
                              i \in 1..(Len(sliced_nodes) - 1)}]

\* lines 63-87: for edge in graph.edges()
RECURSIVE SplitLoop(_, _, _, _)
SplitLoop(sliced_graph, G, todo, split_length) ==
    IF todo = {} THEN sliced_graph
    ELSE LET edge == CHOOSE e \in todo : TRUE
             from_node == CHOOSE n \in edge : \A m \in edge : n <= m
             to_node == CHOOSE n \in edge : n # from_node
             edge_length == get_distance_between_points(G.x[from_node], G.x[to_node])
         IN SplitLoop(IF edge_length <= split_length THEN sliced_graph
                      ELSE SliceEdge(sliced_graph, G, edge, split_length),
                      G, todo \ {edge}, split_length)

\* split_network_edges(graph, split_length)
split_network_edges(G, split_length) == SplitLoop(G, G, G.edges, split_length)

----------------------------------------------------------------------------
(* split_network_edges on small networks *)

SplitNetworks ==
    UNION {[nodes : {1..n}, x : [1..n -> 0..MaxCoord],
            edges : SUBSET {e \in SUBSET (1..n) : Cardinality(e) = 2}] :
           n \in 2..SplitNodes}

SplitInit ==
    /\ graph = EmptyGraph
    /\ \E G \in SplitNetworks : \E split_length \in 1..MaxSplit :
          call = [op |-> "split_network_edges", args |-> <<G, split_length>>]
    /\ result = [err |-> "ok", value |-> [nodes |-> {}, x |-> <<>>, edges |-> {}]]
    /\ ncalls = 0 /\ SessionIdle
    /\ PhaseIdle /\ VoltIdle

\* split_network_edges(graph, split_length)
SplitNetworkEdges ==
    /\ call.op = "split_network_edges"
    /\ ncalls = 0
    /\ ncalls' = 1
    /\ result' = [err |-> "ok", value |-> split_network_edges(call.args[1], call.args[2])]
    /\ UNCHANGED <<graph, call, phaseVars, voltVars, sessionVars>>

SplitNext == SplitNetworkEdges

SpecSplit == SplitInit /\ [][SplitNext]_vars

----------------------------------------------------------------------------
(* mcp_server: the tools of a session and the AppContext they share
   app.graphs, app.phase_mappers, app.voltage_mappers and app.equipment_mappers are
   keyed by graph id, app.systems by system name. A mapper is recorded with what it
   was built from; whether its constructor raises on the given configs is an input
   of the call. *)

MaxGraphs == 2
MaxSystems == 2
MaxConfigIds == 1

GraphIds == 1..MaxGraphs
SystemNames == 1..MaxSystems
ConfigIds == 1..MaxConfigIds

\* dict.pop(key, None) / del dict[key]
Pop(d, key) == [k \in DOMAIN d \ {key} |-> d[k]]

\* the tool returns json.dumps({"success": False, "error": ...}) without a write
ToolFailure(app_, error) == [app |-> app_, success |-> FALSE, error |-> error]
ToolSuccess(app_) == [app |-> app_, success |-> TRUE, error |-> "none"]

\* AppContext.get_graph: KeyError("No graph found ...") for an unknown id
get_graph(app_, graph_id) ==
    IF graph_id \in DOMAIN app_.graphs
    THEN [err |-> "ok", value |-> app_.graphs[graph_id]]
    ELSE [err |-> "KeyError", value |-> None]

\* create_graph: app.graphs[generate_id()] = DistributionGraph()
create_graph(app_, graph_id) ==
    ToolSuccess([app_ EXCEPT !.graphs = Put(app_.graphs, graph_id, "DistributionGraph")])

\* delete_graph
delete_graph(app_, graph_id) ==
    IF graph_id \notin DOMAIN app_.graphs THEN ToolFailure(app_, "No graph found")
    ELSE ToolSuccess([app_ EXCEPT !.graphs = Pop(app_.graphs, graph_id),
                                  !.phase_mappers = Pop(app_.phase_mappers, graph_id),
                                  !.voltage_mappers = Pop(app_.voltage_mappers, graph_id),
                                  !.equipment_mappers = Pop(app_.equipment_mappers, graph_id)])

\* configure_phase_mapper(graph_id, transformer_configs, method)
configure_phase_mapper(app_, graph_id, configs, raises) ==
    IF get_graph(app_, graph_id).err # "ok" THEN ToolFailure(app_, "KeyError")
    ELSE IF raises THEN ToolFailure(app_, "Exception")
    ELSE ToolSuccess([app_ EXCEPT !.phase_mappers =
            Put(app_.phase_mappers, graph_id,
                [class |-> "BalancedPhaseMapper", graph |-> graph_id, configs |-> configs])])

\* configure_voltage_mapper(graph_id, transformer_voltages)
configure_voltage_mapper(app_, graph_id, configs, raises) ==
    IF get_graph(app_, graph_id).err # "ok" THEN ToolFailure(app_, "KeyError")
    ELSE IF raises THEN ToolFailure(app_, "Exception")
    ELSE ToolSuccess([app_ EXCEPT !.voltage_mappers =
            Put(app_.voltage_mappers, graph_id,
                [class |-> "TransformerVoltageMapper", graph |-> graph_id,
                 configs |-> configs])])

\* configure_equipment_mapper writing the mapper before it looks at the tables
configure_equipment_mapper_unchecked(app_, graph_id, catalog) ==
    ToolSuccess([app_ EXCEPT !.equipment_mappers =
            Put(app_.equipment_mappers, graph_id,
                [class |-> "EdgeEquipmentMapper", graph |-> graph_id,
                 voltage_mapper |-> [class |-> "None"],
                 phase_mapper |-> [class |-> "None"]])])

\* configure_equipment_mapper(graph_id, catalog_path); catalog is what stands at
\* catalog_path: a DatasetSystem file, a file that does not parse, or nothing
configure_equipment_mapper(app_, graph_id, catalog) ==
    IF get_graph(app_, graph_id).err # "ok" THEN ToolFailure(app_, "KeyError")
    ELSE IF graph_id \notin DOMAIN app_.voltage_mappers
    THEN ToolFailure(app_, "Voltage mapper must be configured first")
    ELSE IF graph_id \notin DOMAIN app_.phase_mappers
    THEN ToolFailure(app_, "Phase mapper must be configured first")
    ELSE IF catalog = "not_found" THEN ToolFailure(app_, "Catalog file not found")
    ELSE IF catalog = "invalid" THEN ToolFailure(app_, "Exception")
    ELSE ToolSuccess([app_ EXCEPT !.equipment_mappers =
            Put(app_.equipment_mappers, graph_id,
                [class |-> "EdgeEquipmentMapper", graph |-> graph_id,
                 voltage_mapper |-> app_.voltage_mappers[graph_id],
                 phase_mapper |-> app_.phase_mappers[graph_id]])])

\* _get_missing_mappers
get_missing_mappers(app_, graph_id) ==
    (IF graph_id \notin DOMAIN app_.phase_mappers THEN <<"phase_mapper">> ELSE <<>>)
    \o (IF graph_id \notin DOMAIN app_.voltage_mappers THEN <<"voltage_mapper">> ELSE <<>>)
    \o (IF graph_id \notin DOMAIN app_.equipment_mappers
        THEN <<"equipment_mapper">> ELSE <<>>)

\* the build_system tool; raises: DistributionSystemBuilder or get_system raises
build_system_tool(app_, system_name, graph_id, raises) ==
    IF get_graph(app_, graph_id).err # "ok" THEN ToolFailure(app_, "KeyError")
    ELSE IF get_missing_mappers(app_, graph_id) # <<>>
    THEN ToolFailure(app_, "Missing mappers")
    ELSE IF raises THEN ToolFailure(app_, "Exception")
    ELSE ToolSuccess([app_ EXCEPT !.systems =
            Put(app_.systems, system_name,
                [graph |-> graph_id,
                 phase_mapper |-> app_.phase_mappers[graph_id],
                 voltage_mapper |-> app_.voltage_mappers[graph_id],
                 equipment_mapper |-> app_.equipment_mappers[graph_id]])])

----------------------------------------------------------------------------
(* A session: any sequence of tool calls *)

SessionInit ==
    /\ graph = EmptyGraph
    /\ call = [op |-> "init", args |-> <<>>]
    /\ result = [err |-> "none", value |-> TRUE]
    /\ ncalls = 0 /\ SessionIdle
    /\ PhaseIdle /\ VoltIdle

ToolCall(op, args, r) ==
    /\ call' = [op |-> op, args |-> args]
    /\ result' = [err |-> r.error, value |-> r.success]
    /\ app_context' = r.app
    /\ UNCHANGED <<graph, ncalls, phaseVars, voltVars>>

CreateGraph ==
    \E graph_id \in GraphIds \ DOMAIN app_context.graphs :
        ToolCall("create_graph", <<graph_id>>, create_graph(app_context, graph_id))

DeleteGraph ==
    \E graph_id \in GraphIds :
        ToolCall("delete_graph", <<graph_id>>, delete_graph(app_context, graph_id))

ConfigurePhaseMapper ==
    \E graph_id \in GraphIds, configs \in ConfigIds, raises \in BOOLEAN :
        ToolCall("configure_phase_mapper", <<graph_id>>,
                 configure_phase_mapper(app_context, graph_id, configs, raises))

ConfigureVoltageMapper ==
    \E graph_id \in GraphIds, configs \in ConfigIds, raises \in BOOLEAN :
        ToolCall("configure_voltage_mapper", <<graph_id>>,
                 configure_voltage_mapper(app_context, graph_id, configs, raises))

ConfigureEquipmentMapper ==
    \E graph_id \in GraphIds, catalog \in {"ok", "not_found", "invalid"} :
        ToolCall("configure_equipment_mapper", <<graph_id>>,
                 configure_equipment_mapper(app_context, graph_id, catalog))

BuildSystemTool ==
    \E system_name \in SystemNames, graph_id \in GraphIds, raises \in BOOLEAN :
        ToolCall("build_system", <<graph_id, system_name>>,
                 build_system_tool(app_context, system_name, graph_id, raises))

SessionNext == CreateGraph \/ DeleteGraph \/ ConfigurePhaseMapper \/ ConfigureVoltageMapper
                  \/ ConfigureEquipmentMapper \/ BuildSystemTool

SpecSession == SessionInit /\ [][SessionNext]_vars

----------------------------------------------------------------------------
(* Properties of the mappers *)

\* C8: BalancedPhaseMapper construction requires the configs to name exactly the
\* transformer edges of the graph: once __init__ has run on a config list whose
\* names differ from the transformer edge names (a transformer without a config,
\* or a config naming no transformer), construction has failed with
\* MissingTransformerMapping, a MapperError, and no phase table was produced.
C8_ConfigsCoverTransformers ==
    (pc # "init" /\ MapperNames(mapper) # TransformerEdgeNames(graph))
        => /\ pc = "raised"
           /\ perr = "MissingTransformerMapping"
           /\ perr \in MapperErrors
           /\ container = <<>>
           /\ transformer_mapper = <<>>

\* the head (source side) and tail of transformer edge t in the DFS tree
HeadOf(G, t) == CHOOSE n \in EdgeNodes(G, t) :
                    \E m \in EdgeNodes(G, t) : <<n, m>> \in get_dfs_tree(G).value.arcs
TailOf(G, t) == CHOOSE n \in EdgeNodes(G, t) : n # HeadOf(G, t)

\* C10: once node_phase_mapping is computed, every configured transformer t has
\* transformer_phase_mapping[t] = {A,B,C} if ThreePhase and otherwise one of the HT
\* tuples of its type; the phase set of t's head node contains that tuple; t's tail
\* node is {S1,N,S2} if t is split-phase and otherwise contains the tuple; both
\* endpoints are {A,B,C} for ThreePhase.
C10_TransformerNodePhases ==
    pc \in {"assets", "validate", "done"} =>
        \A i \in DOMAIN mapper :
            LET t == mapper[i].tr_name
                tr_type == mapper[i].tr_type
                head == HeadOf(graph, t)
                tail == TailOf(graph, t)
            IN /\ t \in DOMAIN transformer_mapper
               /\ head \in DOMAIN container
               /\ tail \in DOMAIN container
               /\ IF tr_type = "THREE_PHASE"
                  THEN /\ transformer_mapper[t] = three_phase
                       /\ container[head] = three_phase
                       /\ container[tail] = three_phase
                  ELSE /\ transformer_mapper[t] \in Range(ht_phases_of(tr_type))
                       /\ transformer_mapper[t] \subseteq container[head]
                       /\ IF is_split_phase_type(tr_type)
                          THEN container[tail] = split_phase_tail
                          ELSE transformer_mapper[t] \subseteq container[tail]

\* C9: TransformerVoltageMapper construction on a graph with a transformer edge
\* whose name is not in xfmr_voltage (e.g. one transformer and an empty list) fails
\* with MissingVoltageMappingError, a MapperError catchable as ShiftException, and
\* no voltage table is produced.
C9_MissingVoltageRaises ==
    (vpc # "init" /\ TransformerEdgeNames(graph) \ VoltageNames(xfmr_voltage) # {})
        => /\ vpc = "raised"
           /\ verr = "MissingVoltageMappingError"
           /\ IsShiftException(verr)
           /\ node_voltages = <<>>

\* C11: after phase mapping, for every configured transformer t and every node n
\* on the DFS path from the voltage source to head(t), phases[n] is a superset of
\* phases[head(t)] (two-phase unions having been promoted to {A,B,C}); this holds
\* for every order of the config list and when one transformer's head lies on the
\* path to another transformer's head.
C11_PhaseMonotone ==
    pc \in {"assets", "validate", "done"} =>
        \A i \in DOMAIN mapper :
            LET head == HeadOf(graph, mapper[i].tr_name)
            IN \A n \in Ancestors(get_dfs_tree(graph).value, head) :
                   /\ head \in DOMAIN container
                   /\ n \in DOMAIN container
                   /\ container[head] \subseteq container[n]

\* sum of the capacities of the named transformers
RECURSIVE CapacitySum(_, _)
CapacitySum(weights, names) ==
    IF names = {} THEN 0
    ELSE LET n == CHOOSE x \in names : TRUE
         IN weights[n].tr_capacity + CapacitySum(weights, names \ {n})

\* position of transformer i in the descending (stable) order of the capacities
Rank(weights, i) ==
    Cardinality({j \in DOMAIN weights : weights[j].tr_capacity > weights[i].tr_capacity})
    + Cardinality({j \in 1..i : weights[j].tr_capacity = weights[i].tr_capacity})

\* capacity held by a group when the transformer of rank r is about to be placed
SumBefore(weights, group, r) ==
    CapacitySum(weights, {n \in Range(group) : Rank(weights, n) < r})

GroupSums(weights, allocations) ==
    {CapacitySum(weights, Range(allocations[g])) : g \in DOMAIN allocations}

\* C12: greedy_allocations(weights, k) returns k groups that partition the names;
\* every transformer was put, in descending order of capacity, on a group whose
\* running sum was smallest at that moment; the largest and the smallest group
\* sum differ by at most the largest single capacity; and nine transformers with
\* three each of 10, 20 and 30 kVA (1, 2, 3 here) and k = 3 give group sums within
\* 10 kVA (1) of each other.
C12_GreedyBalanced ==
    (call.op = "greedy_allocations" /\ ncalls = 1) =>
        LET weights == call.args[1]
            k == call.args[2]
            allocations == result.value
            sums == GroupSums(weights, allocations)
        IN /\ DOMAIN allocations = 1..k
           /\ UNION {Range(allocations[g]) : g \in 1..k} = DOMAIN weights
           /\ \A g \in 1..k : \A a, b \in DOMAIN allocations[g] :
                  a # b => allocations[g][a] # allocations[g][b]
           /\ \A g, h \in 1..k : g # h => Range(allocations[g]) \cap Range(allocations[h]) = {}
           /\ \A g \in 1..k : \A a \in DOMAIN allocations[g] :
                  LET n == allocations[g][a]
                  IN /\ \A b \in 1..(a - 1) :
                            Rank(weights, allocations[g][b]) < Rank(weights, n)
                     /\ \A h \in 1..k : SumBefore(weights, allocations[g], Rank(weights, n))
                                          <= SumBefore(weights, allocations[h], Rank(weights, n))
           /\ \A x, y \in sums :
                  x - y <= Compare("max", {0} \cup {weights[i].tr_capacity : i \in DOMAIN weights})
           /\ (/\ Len(weights) = 9 /\ k = 3
               /\ \A c \in 1..3 : Cardinality({i \in 1..9 : weights[i].tr_capacity = c}) = 3)
                  => \A x, y \in sums : x - y <= 1

\* the nine-transformer example, given in an order that is not sorted
C12_Witness ==
    /\ call.op = "greedy_allocations" /\ ncalls = 1
    /\ Len(call.args[1]) = 9 /\ call.args[2] = 3
    /\ \A c \in 1..3 : Cardinality({i \in 1..9 : call.args[1][i].tr_capacity = c}) = 3
    /\ call.args[1][1].tr_capacity = 1 /\ call.args[1][9].tr_capacity = 2
    /\ GroupSums(call.args[1], result.value) = {6}

\* the nodes joined to S without crossing a transformer edge
RECURSIVE Zone(_, _)
Zone(G, S) ==
    LET T == S \cup {m \in DOMAIN G.node_data : \E n \in S :
                        /\ {n, m} \in Edges(G)
                        /\ G.edge_data[{n, m}].edge_type # DistributionTransformer}
    IN IF T = S THEN S ELSE Zone(G, T)

\* the configs of the transformer edges of the graph
TransformerConfigs(G, xv) == {i \in DOMAIN xv : xv[i].name \in TransformerEdgeNames(G)}

\* cascaded transformers agree on the level between them and transformers fed
\* from the same primary point have the same primary voltage
LevelConsistent(G, xv) ==
    \A i, j \in TransformerConfigs(G, xv) :
        LET hi == Zone(G, {HeadOf(G, xv[i].name)})
            ti == Zone(G, {TailOf(G, xv[i].name)})
            hj == Zone(G, {HeadOf(G, xv[j].name)})
        IN /\ hi = hj => Compare("max", Range(xv[i].voltages)) = Compare("max", Range(xv[j].voltages))
           /\ ti = hj => Compare("min", Range(xv[i].voltages)) = Compare("max", Range(xv[j].voltages))

\* C13: once node_voltage_mapping is computed from level-consistent configs, every
\* transformer edge t with configured voltages V_t has its HT endpoint (the DFS
\* parent) at max(V_t) and its LT endpoint at min(V_t), also when several
\* transformers with different secondary voltages share one HT node.
C13_TransformerEndVoltages ==
    (vpc = "mapped" /\ LevelConsistent(graph, xfmr_voltage)) =>
        \A i \in TransformerConfigs(graph, xfmr_voltage) :
            LET t == xfmr_voltage[i].name
                head == HeadOf(graph, t)
                tail == TailOf(graph, t)
            IN /\ head \in DOMAIN node_voltages
               /\ tail \in DOMAIN node_voltages
               /\ node_voltages[head] = Compare("max", Range(xfmr_voltage[i].voltages))
               /\ node_voltages[tail] = Compare("min", Range(xfmr_voltage[i].voltages))

\* C14: after a BalancedPhaseMapper is constructed, asset_phase_mapping[node][kind]
\* equals node_phase_mapping[node] for every node and every asset kind on it, hence
\* is a subset of it; and the construction of any phase mapper whose union of asset
\* phases at some node is not a subset of that node's phase set fails with
\* InvalidAssetPhase.
C14_AssetPhaseSubset ==
    /\ (pc = "done" /\ mapper_class = "BalancedPhaseMapper") =>
           \A n \in DOMAIN graph.node_data :
               /\ DOMAIN asset_mapping[n] = graph.node_data[n].assets
               /\ \A kind \in DOMAIN asset_mapping[n] :
                      /\ asset_mapping[n][kind] = container[n]
                      /\ asset_mapping[n][kind] \subseteq container[n]
    /\ (/\ pc \in {"done", "raised"}
        /\ asset_mapping # <<>>
        /\ \E n \in DOMAIN asset_mapping :
               ~(AssetPhases(asset_mapping[n]) \subseteq container[n]))
           => (pc = "raised" /\ perr = "InvalidAssetPhase")
    /\ pc = "done" =>
           \A n \in DOMAIN asset_mapping :
               AssetPhases(asset_mapping[n]) \subseteq container[n]

\* a mapper rejected because the second node it validates holds an asset phase
\* that the node does not have
C14_Witness ==
    /\ pc = "raised" /\ perr = "InvalidAssetPhase"
    /\ AssetPhases(asset_mapping[graph.nodes[1]]) \subseteq container[graph.nodes[1]]
    /\ \E n \in DOMAIN asset_mapping : asset_mapping[n] # <<>>
           /\ ~(AssetPhases(asset_mapping[n]) \subseteq container[n])


----------------------------------------------------------------------------
(* Properties of the system builder *)

Built == call.op = "DistributionSystemBuilder" /\ ncalls = 1
EquipmentOf(e) == call.args[1][e[3].name]

\* what stops the build at the edge e, "ok" if nothing does
EdgeFailure(e) ==
    IF EquipmentOf(e).type # EQUIPMENT_TO_CLASS_TYPE(e[3].edge_type) THEN "equipment"
    ELSE IF IsBranchType(e[3].edge_type) THEN "ok"
    ELSE LET b == get_wdg_buses(e[1], e[2], EquipmentOf(e), node_voltages)
         IN IF b.err # "ok" THEN "winding_buses"
            ELSE IF get_wdg_phases(b.value, container).err # "ok" THEN "winding_phases"
            ELSE "ok"

\* the failure of the first edge, in get_edges() order, that stops the build
FirstFailure ==
    LET edges == get_edges(graph)
        failing == {i \in DOMAIN edges : EdgeFailure(edges[i]) # "ok"}
    IN IF failing = {} THEN "ok"
       ELSE EdgeFailure(edges[CHOOSE i \in failing : \A j \in failing : i <= j])

\* C15: every winding of a built transformer sits on the endpoint whose voltage is
\* closest to the winding's effective voltage, a built transformer uses as many
\* distinct buses as it has distinct winding voltages, and a build stopped by a
\* differing number fails with WindingMismatchError
C15_WindingBusInjectivity ==
    Built =>
        /\ result.err = "ok" =>
             \A e \in Range(get_edges(graph)) : \A k \in DOMAIN result.value.transformers :
                LET tr == result.value.transformers[k]
                    wv == get_wdg_voltages(tr.equipment)
                IN tr.name = e[3].name =>
                     /\ Cardinality(Range(tr.buses)) = Cardinality(Range(wv))
                     /\ \A i \in DOMAIN wv :
                          tr.buses[i] = ClosestBus(e[1], e[2], node_voltages, wv[i])
        /\ FirstFailure = "winding_buses" => result.err = "WindingMismatchError"

\* C16: the equipment of every edge of a built system has the type the table gives for
\* the edge type, and a build stopped by an equipment of another type fails with
\* WrongEquipmentAssigned
C16_EquipmentKind ==
    Built =>
        /\ result.err = "ok" =>
             \A e \in Range(get_edges(graph)) :
                EquipmentOf(e).type = EQUIPMENT_TO_CLASS_TYPE(e[3].edge_type)
        /\ FirstFailure = "equipment" => result.err = "WrongEquipmentAssigned"

\* C17: a built transformer with S1 or S2 on its winding buses has three windings on
\* two buses and three winding phase sets, the bus phases for a winding on a bus
\* without split phases and {S1,N}, {N,S2} in turn for the others; without S1 and S2
\* the winding phases are the bus phases; a build stopped by another split-phase
\* layout fails with InvalidSplitPhaseWindingError
C17_SplitPhaseWindings ==
    Built =>
        /\ result.err = "ok" =>
             \A k \in DOMAIN result.value.transformers :
                LET tr == result.value.transformers[k]
                    bus_phases == [i \in DOMAIN tr.buses |-> container[tr.buses[i]]]
                    tapped == SelectSeq([i \in DOMAIN tr.buses |-> i],
                                        LAMBDA i : HasSplitPhase(bus_phases[i]))
                IN IF HasSplitPhase(UNION Range(bus_phases))
                   THEN /\ Len(tr.buses) = 3
                        /\ Cardinality(Range(tr.buses)) = 2
                        /\ Len(tr.winding_phases) = 3
                        /\ Len(tapped) = 2
                        /\ \A i \in 1..3 :
                             tr.winding_phases[i] =
                                IF ~HasSplitPhase(bus_phases[i]) THEN bus_phases[i]
                                ELSE IF i = tapped[1] THEN {"S1", "N"} ELSE {"N", "S2"}
                   ELSE tr.winding_phases = bus_phases
        /\ FirstFailure = "winding_phases" => result.err = "InvalidSplitPhaseWindingError"

EdgesOfKind(kind) == SelectSeq(get_edges(graph), LAMBDA e : EdgeKind(e[3].edge_type) = kind)
AssetsOfType(a) == {x \in result.value.assets : x.asset_type = a}

\* C18: a built system has one bus per node, in node order, with the node's phases and
\* voltage, one asset per node and asset type on that node's bus, one branch per
\* branch edge with buses [u,v] and one transformer per transformer edge with the set
\* of buses {u,v}; the complete distribution graph of the test builds with 10 buses,
\* 3 transformers, 6 branches, 6 loads and 1 voltage source
C18_AssemblyOneToOne ==
    Built =>
        /\ result.err = "ok" =>
             LET sys == result.value
                 br == EdgesOfKind("Branch")
                 tr == EdgesOfKind("Transformer")
             IN /\ Len(sys.buses) = Len(graph.nodes)
                /\ \A i \in DOMAIN sys.buses :
                     /\ sys.buses[i].name = graph.nodes[i]
                     /\ sys.buses[i].phases = container[graph.nodes[i]]
                     /\ sys.buses[i].rated_voltage = node_voltages[graph.nodes[i]]
                /\ \A n \in DOMAIN graph.node_data : \A a \in UNION AssetSets :
                     Cardinality({x \in AssetsOfType(a) : x.bus = n})
                        = IF a \in graph.node_data[n].assets THEN 1 ELSE 0
                /\ Len(sys.branches) = Len(br)
                /\ \A i \in DOMAIN br :
                     /\ sys.branches[i].name = br[i][3].name
                     /\ sys.branches[i].buses = <<br[i][1], br[i][2]>>
                /\ Len(sys.transformers) = Len(tr)
                /\ \A i \in DOMAIN tr :
                     /\ sys.transformers[i].name = tr[i][3].name
                     /\ Range(sys.transformers[i].buses) = {tr[i][1], tr[i][2]}
        /\ graph = complete_distribution_graph =>
             /\ result.err = "ok"
             /\ Len(result.value.buses) = 10
             /\ Len(result.value.transformers) = 3
             /\ Len(result.value.branches) = 6
             /\ Cardinality(AssetsOfType(DistributionLoad)) = 6
             /\ Cardinality(AssetsOfType(DistributionVoltageSource)) = 1

----------------------------------------------------------------------------
(* Properties of the transformer node explosion *)

Exploded == call.op = "_get_distribution_graph_from_network" /\ ncalls = 1
\* the graph handed to _explode_transformer_node and its DFS tree
PreGraph == converted_graph(call.args[1], call.args[3], call.args[4]).graph
PreTree == get_dfs_tree(PreGraph).value
\* the edges (p, t) between a transformer node t and a DFS predecessor p of t
PredEdges == {{a[1], a[2]} : a \in {b \in PreTree.arcs : b[2] \in call.args[2]}}
EdgeNamesOf(G) == {G.edge_data[k].name : k \in Edges(G)}

\* C19: after the explosion every transformer node t has a new node t_ht at its
\* location; every edge (p, t) to a DFS predecessor p of t is gone and (p, t_ht)
\* carries its edge data; (t_ht, t) is a transformer edge of null length with a name
\* no other edge has; every other node and edge is as before; the transformer edges
\* are exactly the edges (t_ht, t), and every node connected to the voltage source
\* before is connected to it afterwards
C19_TransformerNodeExplosion ==
    Exploded =>
        LET T == call.args[2]
            pre == PreGraph
            ht == {HtName(t) : t \in T}
        IN /\ result.err = "ok"
           /\ \A t \in T :
                /\ HtName(t) \notin DOMAIN pre.node_data
                /\ HasNode(graph, HtName(t))
                /\ graph.node_data[HtName(t)].location = pre.node_data[t].location
                /\ \A a \in PreTree.arcs :
                     a[2] = t =>
                        /\ ~HasEdge(graph, a[1], t)
                        /\ HasEdge(graph, a[1], HtName(t))
                        /\ graph.edge_data[{a[1], HtName(t)}] = pre.edge_data[{a[1], t}]
                /\ HasEdge(graph, HtName(t), t)
                /\ graph.edge_data[{HtName(t), t}].edge_type = DistributionTransformer
                /\ graph.edge_data[{HtName(t), t}].length = None
                /\ graph.edge_data[{HtName(t), t}].name \notin EdgeNamesOf(pre)
                /\ \A k \in Edges(graph) \ {{HtName(t), t}} :
                     graph.edge_data[k].name # graph.edge_data[{HtName(t), t}].name
           /\ DOMAIN graph.node_data = DOMAIN pre.node_data \cup ht
           /\ \A n \in DOMAIN pre.node_data : graph.node_data[n] = pre.node_data[n]
           /\ graph.vsource_node = pre.vsource_node
           /\ Edges(graph) = (Edges(pre) \ PredEdges)
                                \cup {{a[1], HtName(a[2])} : a \in {b \in PreTree.arcs : b[2] \in T}}
                                \cup {{HtName(t), t} : t \in T}
           /\ \A k \in Edges(pre) \ PredEdges : graph.edge_data[k] = pre.edge_data[k]
           /\ {k \in Edges(graph) : graph.edge_data[k].edge_type = DistributionTransformer}
                 = {{HtName(t), t} : t \in T}
           /\ Component(pre, {pre.vsource_node}) \subseteq Component(graph, {graph.vsource_node})

\* two transformer nodes, one the DFS predecessor of the other, have been exploded
C19_Witness ==
    /\ Exploded /\ result.err = "ok"
    /\ \E a \in PreTree.arcs :
         /\ a[1] \in call.args[2] /\ a[2] \in call.args[2]
         /\ HasEdge(graph, a[1], HtName(a[2]))
         /\ HasEdge(graph, HtName(a[2]), a[2])

----------------------------------------------------------------------------
(* Properties of the transformer equipment selection *)

Selected == call.op = "_get_closest_transformer_equipment" /\ ncalls = 1
PrimaryPower(e) == e.windings[1].rated_power
WindingVoltagesOf(e) == [i \in DOMAIN e.windings |-> e.windings[i].rated_voltage]
InTolerance(v1, v2) == 85 * v1 <= 100 * v2 /\ 100 * v2 < 115 * v1

\* (a) and (b): every winding is rated above the capacity and the primary winding has
\* three phases for num_phase 3 and one phase otherwise
PowerAndPhasesFit(e, capacity, num_phase) ==
    /\ \A i \in DOMAIN e.windings : e.windings[i].rated_power > capacity
    /\ e.windings[1].num_phases = IF num_phase = 3 THEN 3 ELSE 1

\* (c): every endpoint voltage has some winding voltage within the tolerance
AnyWindingFits(e, voltages) ==
    \A i \in DOMAIN voltages : \E j \in DOMAIN e.windings :
        InTolerance(voltages[i], e.windings[j].rated_voltage)

\* the i-th largest element of a list of numbers
NthLargest(xs, i) ==
    CHOOSE x \in Range(xs) :
        /\ Cardinality({j \in DOMAIN xs : xs[j] > x}) < i
        /\ i <= Cardinality({j \in DOMAIN xs : xs[j] >= x})

\* (c) by rank: the i-th largest endpoint voltage has the i-th largest winding voltage
\* within the tolerance
RankedWindingsFit(e, voltages) ==
    \A i \in DOMAIN voltages :
        i <= Len(e.windings) =>
            InTolerance(NthLargest(voltages, i), NthLargest(WindingVoltagesOf(e), i))

\* the selection returns a smallest-primary entry of the fitting ones, and raises
\* EquipmentNotFoundError exactly when none fits
SelectsAmong(fitting) ==
    IF fitting = {} THEN result.err = "EquipmentNotFoundError"
    ELSE /\ result.err = "ok"
         /\ \E i \in fitting : result.value = call.args[1][i]
         /\ \A j \in fitting : PrimaryPower(result.value) <= PrimaryPower(call.args[1][j])

----------------------------------------------------------------------------
(* Further properties of the graph operations *)

\* C30: an add_edge call that raises NodeDoesNotExist, EdgeAlreadyExists or
\* VsourceNodeAlreadyExists leaves the nodes, the edges and vsource_node of the graph
\* as they were before the call
C30_FailingAddEdgeFrame ==
    [][(call'.op = "add_edge"
        /\ result'.err \in {"NodeDoesNotExist", "EdgeAlreadyExists",
                            "VsourceNodeAlreadyExists"})
       => graph' = graph]_vars

----------------------------------------------------------------------------
(* Further properties of the mappers *)

\* the endpoint of the edge that is the DFS parent of the other endpoint
DfsParentEnd(G, edge_name) ==
    LET nodes == get_nodes_by_edge_names(G, {edge_name})
    IN CHOOSE x \in nodes : \E y \in nodes : <<x, y>> \in get_dfs_tree(G).value.arcs

\* C23: for every configured transformer edge that is an arc of the DFS tree,
\* _get_head_node returns the endpoint that is the DFS parent of the other one,
\* whichever endpoint list(set) puts first, and does not fail when the tail is a leaf
C23_HeadNode ==
    pc # "none" =>
        \A t \in DOMAIN enum_first :
            (t \in TransformerEdgeNames(graph)
             /\ \E a \in get_dfs_tree(graph).value.arcs :
                   {a[1], a[2]} = get_nodes_by_edge_names(graph, {t}))
            => LET h == get_head_node(graph, t, enum_first[t])
               IN h.err = "ok" /\ h.node = DfsParentEnd(graph, t)

\* the phase set a descendant receives from a transformer whose tail carries lt_phase
FillOf(lt_phase) == IF lt_phase = split_phase_tail THEN {"S1", "S2"} ELSE lt_phase

\* the configs, in list order, whose head has n among its DFS descendants
ConfigsAbove(n) ==
    {i \in DOMAIN mapper :
        n \in Descendants(get_dfs_tree(graph).value, HeadOf(graph, mapper[i].tr_name))}

\* C24: the downward step goes through the transformers in config-list order; a
\* node that has a phase set before the step keeps it, and every DFS descendant of
\* a head that has none receives the phase set of the tail of the first such
\* transformer, {S1,S2} standing for a tail labelled {S1,N,S2}
C24_DownwardPropagation ==
    [][(pc = "downward" /\ pc' = "assets")
       => /\ \A n \in DOMAIN container :
                n \in DOMAIN container' /\ container'[n] = container[n]
          /\ \A n \in DOMAIN graph.node_data :
                (n \notin DOMAIN container /\ ConfigsAbove(n) # {})
                => LET i == CHOOSE j \in ConfigsAbove(n) : \A k \in ConfigsAbove(n) : j <= k
                   IN /\ n \in DOMAIN container'
                      /\ container'[n] =
                            FillOf(container[TailOf(graph, mapper[i].tr_name)])
          /\ \A n \in DOMAIN container' \ DOMAIN container : ConfigsAbove(n) # {}]_vars

\* a node below two transformers whose tails carry different phase sets has been
\* filled from the first of the two in the config list
C24_Witness ==
    /\ pc = "assets"
    /\ Len(mapper) = 2
    /\ \E n \in DOMAIN container :
          /\ ConfigsAbove(n) = {1, 2}
          /\ \A i \in {1, 2} : n \notin EdgeNodes(graph, mapper[i].tr_name)
          /\ FillOf(container[TailOf(graph, mapper[1].tr_name)])
                # FillOf(container[TailOf(graph, mapper[2].tr_name)])
          /\ container[n] = FillOf(container[TailOf(graph, mapper[1].tr_name)])
          /\ \E m \in DOMAIN container : container[m] = split_phase_tail

\* n lies below the tail of the i-th configured transformer and no other transformer
\* edge lies between that tail and n
DirectlyBelow(n, i) ==
    LET tree == get_dfs_tree(graph).value
        tail == TailOf(graph, mapper[i].tr_name)
    IN /\ n \in Descendants(tree, tail)
       /\ \A j \in DOMAIN mapper \ {i} :
             LET other == TailOf(graph, mapper[j].tr_name)
             IN ~(other \in Descendants(tree, tail)
                  /\ n \in Descendants(tree, other) \cup {other})

\* C27: in the final node_phase_mapping every node directly below the tail of a
\* transformer t is {S1,S2} if t is split-phase and otherwise carries the phase set
\* of t's tail, and a node below no transformer tail carries neither S1 nor S2
C27_SecondaryPhases ==
    pc \in {"assets", "validate", "done"} =>
        /\ \A i \in DOMAIN mapper : \A n \in DOMAIN graph.node_data :
              DirectlyBelow(n, i)
              => /\ n \in DOMAIN container
                 /\ container[n] =
                       IF is_split_phase_type(mapper[i].tr_type) THEN {"S1", "S2"}
                       ELSE container[TailOf(graph, mapper[i].tr_name)]
        /\ \A n \in DOMAIN container :
              (\A i \in DOMAIN mapper :
                   n \notin Descendants(get_dfs_tree(graph).value,
                                        TailOf(graph, mapper[i].tr_name))
                                \cup {TailOf(graph, mapper[i].tr_name)})
              => container[n] \cap {"S1", "S2"} = {}

\* the config list in reverse order
Reversed(xv) == [i \in DOMAIN xv |-> xv[Len(xv) + 1 - i]]

\* the configs that name an edge of the graph, in list order
NamedConfigs(G, xv) == SelectSeq(xv, LAMBDA x : x.name \in AllEdgeNames(G))

\* C26: configs are paired with transformer edges by name, so node_voltage_mapping
\* is the same for the reversed xfmr_voltage list, and the same without the configs
\* that name no edge of the graph
C26_VoltageByName ==
    vpc = "mapped" =>
        /\ node_voltages = node_voltage_mapping(graph, Reversed(xfmr_voltage))
        /\ node_voltages = node_voltage_mapping(graph, NamedConfigs(graph, xfmr_voltage))

----------------------------------------------------------------------------
(* Properties of the edge equipment mapper *)

\* the endpoint of the called edge that is the DFS parent of the other
ServedParent ==
    IF <<Arg(1), Arg(2)>> \in get_dfs_tree(graph).value.arcs THEN Arg(1) ELSE Arg(2)

\* the load-bearing nodes among the DFS descendants of n
LoadsBelow(n) ==
    {x \in Descendants(get_dfs_tree(graph).value, n) :
        DistributionLoad \in graph.node_data[x].assets}

\* the total load power of a set of load nodes
RECURSIVE TotalPower(_, _)
TotalPower(eqm, S) ==
    IF S = {} THEN 0
    ELSE LET x == CHOOSE y \in S : TRUE
         IN get_load_power(eqm[x][DistributionLoad].phase_loads) + TotalPower(eqm, S \ {x})

\* C25: _get_served_load on an edge returns the sum of the load power of exactly the
\* load-bearing DFS descendants of the edge's parent endpoint (0 when there is
\* none), at least the served load of every edge further downstream, and raises
\* WrongEquipmentAssigned when a counted load node is mapped to an equipment that
\* is not a LoadEquipment
C25_ServedLoad ==
    (IsCall("_get_served_load") /\ ncalls = 1) =>
        LET eqm == Arg(3)
            counted == LoadsBelow(ServedParent)
        IN /\ {Arg(1), Arg(2)} \ {ServedParent}
                 \subseteq Children(get_dfs_tree(graph).value, ServedParent)
           /\ IF \E x \in counted : eqm[x][DistributionLoad].kind # "LoadEquipment"
              THEN result.err = "WrongEquipmentAssigned"
              ELSE /\ result.err = "ok"
                   /\ result.value = TotalPower(eqm, counted)
                   /\ counted = {} => result.value = 0
                   /\ \A k \in Edges(graph) : \A u \in k : \A v \in k \ {u} :
                         (k \subseteq Descendants(get_dfs_tree(graph).value, ServedParent)
                                        \cup {ServedParent}
                          /\ k # {Arg(1), Arg(2)})
                         => LET below == get_served_load(graph, eqm, u, v)
                            IN below.err = "ok" /\ below.value <= result.value

\* a call with the child endpoint first, on an edge with a loaded subtree and a
\* further edge downstream that serves less
C25_Witness ==
    /\ IsCall("_get_served_load") /\ ncalls = 1
    /\ result.err = "ok" /\ result.value >= 2
    /\ ServedParent = Arg(2)
    /\ Cardinality(LoadsBelow(ServedParent)) >= 2
    /\ \E k \in Edges(graph) : \E u \in k : \E v \in k \ {u} :
          /\ k \subseteq Descendants(get_dfs_tree(graph).value, ServedParent)
          /\ get_served_load(graph, Arg(3), u, v).value < result.value

----------------------------------------------------------------------------
(* Properties of the agglomerative allocation *)

\* C29: with method "agglomerative" the distance matrix has one row and one column
\* per transformer of the group, row i belonging to the HT-side endpoint of the i-th
\* transformer name, and the call either allocates every transformer of the group
\* to exactly one HT phase tuple or raises AllocationMappingError
C29_PerTransformerMatrix ==
    (IsCall("agglomerative") /\ ncalls = 1) =>
        LET tr_names == Arg(1)
        IN /\ Len(result.matrix.nodes) = Len(tr_names)
           /\ \A i \in DOMAIN result.matrix.distances :
                 Len(result.matrix.distances[i]) = Len(tr_names)
           /\ \A i \in DOMAIN tr_names :
                 result.matrix.nodes[i] = HeadOf(graph, tr_names[i])
           /\ \/ result.err = "AllocationMappingError"
              \/ /\ result.err = "ok"
                 /\ \A i \in DOMAIN tr_names :
                       Cardinality({c \in DOMAIN result.value :
                                       tr_names[i] \in Range(result.value[c])}) = 1

----------------------------------------------------------------------------
(* Properties of split_network_edges *)

\* the nodes connected to n by the edges E
RECURSIVE Reach(_, _)
Reach(E, S) ==
    LET T == S \cup UNION {e \in E : e \cap S # {}}
    IN IF T = S THEN S ELSE Reach(E, T)

EdgeLength(N, e) ==
    LET u == CHOOSE n \in e : TRUE
        v == CHOOSE n \in e : n # u
    IN get_distance_between_points(N.x[u], N.x[v])

\* C21: split_network_edges(G, L) returns a network that keeps every node of G at
\* its coordinate and every edge of G of length <= L, replaces every longer edge
\* {u,v} by a chain through fresh nodes lying between u and v, has no edge longer
\* than L, and connects two nodes of G iff G connects them
C21_SplitNetworkEdges ==
    (IsCall("split_network_edges") /\ ncalls = 1) =>
        LET G == Arg(1)
            L == Arg(2)
            R == result.value
        IN /\ G.nodes \subseteq R.nodes
           /\ \A n \in G.nodes : R.x[n] = G.x[n]
           /\ \A e \in G.edges : EdgeLength(G, e) <= L => e \in R.edges
           /\ \A e \in G.edges : EdgeLength(G, e) > L =>
                 /\ e \notin R.edges
                 /\ \E chain \in SUBSET (R.nodes \ G.nodes) :
                       /\ chain # {}
                       /\ \A n \in chain :
                             \E u \in e : \E v \in e \ {u} :
                                G.x[u] <= R.x[n] /\ R.x[n] <= G.x[v]
                       /\ e \subseteq Reach({f \in R.edges : f \subseteq chain \cup e},
                                            {CHOOSE u \in e : TRUE})
           /\ \A e \in R.edges : EdgeLength(R, e) <= L
           /\ \A u, v \in G.nodes : v \in Reach(G.edges, {u}) <=> v \in Reach(R.edges, {u})

----------------------------------------------------------------------------
(* Properties of a session *)

\* the last step was a successful call of the tool op
Stored(op) == call'.op = op /\ result'.value = TRUE

\* a failing configure_equipment_mapper or build_system call changes nothing, a
\* successful one finds the mappers it needs already stored for its graph
StageStep ==
    /\ Stored("configure_equipment_mapper")
          => /\ call'.args[1] \in DOMAIN app_context.voltage_mappers
             /\ call'.args[1] \in DOMAIN app_context.phase_mappers
             /\ call'.args[1] \in DOMAIN app_context'.equipment_mappers
    /\ Stored("build_system")
          => /\ call'.args[1] \in DOMAIN app_context.phase_mappers
             /\ call'.args[1] \in DOMAIN app_context.voltage_mappers
             /\ call'.args[1] \in DOMAIN app_context.equipment_mappers
             /\ call'.args[2] \in DOMAIN app_context'.systems
    /\ (call'.op \in {"configure_equipment_mapper", "build_system"}
        /\ result'.value = FALSE)
          => app_context' = app_context

\* an equipment mapper is stored only for a graph whose phase and voltage mappers
\* are stored, and a stored system was assembled from all three
StageOrder ==
    /\ \A g \in DOMAIN app_context.equipment_mappers :
          /\ g \in DOMAIN app_context.phase_mappers
          /\ g \in DOMAIN app_context.voltage_mappers
          /\ app_context.equipment_mappers[g].phase_mapper.class = "BalancedPhaseMapper"
          /\ app_context.equipment_mappers[g].voltage_mapper.class = "TransformerVoltageMapper"
    /\ \A s \in DOMAIN app_context.systems :
          /\ app_context.systems[s].phase_mapper.class = "BalancedPhaseMapper"
          /\ app_context.systems[s].voltage_mapper.class = "TransformerVoltageMapper"
          /\ app_context.systems[s].equipment_mapper.phase_mapper.class = "BalancedPhaseMapper"

\* C22: in every session configure_equipment_mapper stores an equipment mapper only
\* if a voltage mapper and a phase mapper are stored for the graph, build_system
\* stores a system only if all three mappers are stored, a call that fails changes
\* no session state, and so phase and voltage mapping precede equipment mapping and
\* system assembly comes last
C22_StageOrdering == [][StageStep]_vars /\ []StageOrder

\* a system has been built after a build_system call on the same graph was refused
C22_Witness ==
    /\ call.op = "build_system" /\ result.value = TRUE
    /\ DOMAIN app_context.systems = SystemNames
    /\ \E g \in GraphIds : g \notin DOMAIN app_context.equipment_mappers
====
